---- MODULE Spec2Model ----
(***************************************************************************)
(* A model of the pdrtpa verifier (src/src/verifier.cpp, last revision in  *)
(* the file, lines 1012-1645) together with the logic layer and the SAT    *)
(* wrapper it is built on (src/src/logger.hpp).                            *)
(*                                                                         *)
(* Literals are signed integers exactly as in class literal; variables are *)
(* positive integers handed out by the variable_store.  A SAT assignment   *)
(* is the set of variable ids that are true.  The SAT solver is modelled   *)
(* by its contract: a query is SAT iff some assignment satisfies every     *)
(* asserted clause and every assumption, a model is any such assignment,   *)
(* and a core is any subset of the assumptions that is unsatisfiable.      *)
(* The program is modelled as built with NDEBUG: an assert() does not stop *)
(* the run; assertions are stated as properties instead.                   *)
(***************************************************************************)
EXTENDS Integers, Sequences, FiniteSets, TLC

VARIABLES
    sys,                \* index of the transition_system under verification
    pc,                 \* position of verifier::run
    store_next_id,      \* variable_store::_next_id
    middle_state_vars,  \* verifier::_middle_state_vars (X circle)
    right_input_vars,   \* verifier::_right_input_vars (Y2)
    right_aux_vars,     \* verifier::_right_aux_vars
    trans_activator,    \* verifier::_trans_activator
    trace_activators,   \* verifier::_trace_activators
    trace_blocked_arrows, \* verifier::_trace_blocked_arrows
    error_solver,       \* verifier::_error_solver
    consecution_solver, \* verifier::_consecution_solver
    slv,                \* the local solver of check_trivial_cases
    cexes,              \* verifier::_cexes
    stack,              \* call stack of solve_obligation
    ret,                \* value returned by the last solve_obligation call
    gen,                \* locals c, d of generalize_blocked_arrow
    prop,               \* locals i, arrows of propagate
    result,             \* value returned by verifier::run
    fin,                \* argument of the function under test (unit specs)
    fout                \* result of the function under test (unit specs)

vars == << sys, pc, store_next_id, middle_state_vars, right_input_vars,
           right_aux_vars, trans_activator, trace_activators,
           trace_blocked_arrows, error_solver, consecution_solver, slv,
           cexes, stack, ret, gen, prop, result, fin, fout >>

(***************************************************************************)
(* Bounds of the model.                                                    *)
(***************************************************************************)
MaxDepth == 4       \* push_frame is not taken beyond this depth
MaxPushBack == 5    \* longest vector c or d in generalize_blocked_arrow
MaxUnitInputs == 4  \* input variables in the unit specification of rows
MaxCexes == 5       \* nodes of the pool when split_obligation adds two

(***************************************************************************)
(* Logic layer: variable_range, literal, cube order.                       *)
(***************************************************************************)
Range(b, n) == [begin |-> b, end |-> b + n]
Size(r) == r.end - r.begin
Contains(r, v) == r.begin <= v /\ v < r.end
Nth(r, n) == r.begin + n
Offset(r, v) == v - r.begin
RangeVars(r) == r.begin .. (r.end - 1)

Var(l) == IF l < 0 THEN -l ELSE l
Positive(l) == l >= 0
MkLiteral(v, positive) == IF positive THEN v ELSE -v
Substitute(l, v) == MkLiteral(v, Positive(l))

cube_literal_lt(l1, l2) ==
    \/ Var(l1) < Var(l2)
    \/ (Var(l1) = Var(l2) /\ ~Positive(l1) /\ Positive(l2))

SeqToSet(s) == {s[k] : k \in 1..Len(s)}

is_sorted(c) == \A k \in 1..(Len(c) - 1) : ~cube_literal_lt(c[k + 1], c[k])

is_sorted_and_simple(c) ==
    /\ is_sorted(c)
    /\ \A k \in 1..(Len(c) - 1) : Var(c[k]) # Var(c[k + 1])

\* std::ranges::sort( c, cube_literal_lt ) as an insertion sort
RECURSIVE insert_ordered(_, _)
insert_ordered(c, l) ==
    IF c = << >> THEN << l >>
    ELSE IF cube_literal_lt(l, Head(c)) THEN << l >> \o c
    ELSE << Head(c) >> \o insert_ordered(Tail(c), l)

RECURSIVE sort_literals(_)
sort_literals(c) ==
    IF c = << >> THEN << >>
    ELSE insert_ordered(sort_literals(Tail(c)), Head(c))

\* insert_sorted: lower_bound, no insertion when the literal is there
RECURSIVE insert_sorted(_, _)
insert_sorted(lits, lit) ==
    IF lits = << >> THEN << lit >>
    ELSE IF cube_literal_lt(Head(lits), lit)
         THEN << Head(lits) >> \o insert_sorted(Tail(lits), lit)
         ELSE IF Head(lits) = lit THEN lits ELSE << lit >> \o lits

\* find_conflict_sorted returning the literal of its second argument: the
\* choice C22 is shown to depend on
RECURSIVE find_conflict_sorted_second(_, _)
find_conflict_sorted_second(c, d) ==
    IF c = << >> \/ d = << >> THEN << >>
    ELSE LET x == Head(c)
             y == Head(d)
         IN IF x = -y THEN << y >>
            ELSE IF cube_literal_lt(x, -y)
                 THEN find_conflict_sorted_second(Tail(c), d)
                 ELSE find_conflict_sorted_second(c, Tail(d))

\* find_conflict_sorted: the two-pointer walk; << >> stands for nullopt,
\* << x >> for the literal x.
RECURSIVE find_conflict_sorted(_, _)
find_conflict_sorted(c, d) ==
    IF c = << >> \/ d = << >> THEN << >>
    ELSE LET x == Head(c)
             y == Head(d)
         IN IF x = -y THEN << x >>
            ELSE IF cube_literal_lt(x, -y)
                 THEN find_conflict_sorted(Tail(c), d)
                 ELSE find_conflict_sorted(c, Tail(d))

intersects_sorted(c, d) == find_conflict_sorted(c, d) = << >>

union_sorted(a, b) == a \o b

\* cube::subsumes: std::ranges::includes( that, this, cube_literal_lt )
RECURSIVE includes(_, _)
includes(big, small) ==
    IF small = << >> THEN TRUE
    ELSE IF big = << >> THEN FALSE
    ELSE IF cube_literal_lt(Head(small), Head(big)) THEN FALSE
    ELSE IF cube_literal_lt(Head(big), Head(small))
         THEN includes(Tail(big), small)
         ELSE includes(Tail(big), Tail(small))

subsumes(this, that) == includes(that, this)

\* std::ranges::binary_search on a sorted cube
cube_contains(c, lit) ==
    \E k \in 1..Len(c) :
        ~cube_literal_lt(c[k], lit) /\ ~cube_literal_lt(lit, c[k])

\* cube::find: << >> stands for nullopt
cube_find(c, v) ==
    IF cube_contains(c, v) THEN << v >>
    ELSE IF cube_contains(c, -v) THEN << -v >>
    ELSE << >>

\* cube::negate() followed by cnf_formula::activate( v ): one clause
negate_activate(c, v) == [k \in 1..Len(c) |-> -c[k]] \o << -v >>

\* shift_literal that forgets the polarity: the step C19 is shown to
\* depend on
shift_literal_unsigned(from, to, lit) == Nth(to, Offset(from, Var(lit)))

shift_literal(from, to, lit) == Substitute(lit, Nth(to, Offset(from, Var(lit))))

shift_literals(from, to, literals) ==
    LET kept == SelectSeq(literals, LAMBDA l : Contains(from, Var(l)))
    IN  [k \in 1..Len(kept) |-> shift_literal(from, to, kept[k])]

(***************************************************************************)
(* The transition systems under verification.  A system is what            *)
(* builder::build_from_aiger hands to the verifier: the four variable      *)
(* ranges allocated by make_context (inputs, state, next state, AND        *)
(* gates, in this order from id 1), the init cube, and the AND gates whose *)
(* Tseitin clauses make up trans and error.  gates[g] is the pair of       *)
(* literals of the g-th AND gate; next[j] is the literal the j-th latch    *)
(* takes its next value from; err is the error literal.  TrueLit and       *)
(* FalseLit stand for the AIGER constants.                                 *)
(***************************************************************************)
TrueLit == 1000
FalseLit == -TrueLit

\* test/verifier.cpp "System with an unsafe initial state"
UnsafeInit ==
    [ni |-> 0, ns |-> 1, na |-> 0, init |-> << -1 >>, gates |-> << >>,
     next |-> << TrueLit >>, err |-> -1]
\* test/verifier.cpp "Unsafe when input is true in the initial state"
InputTrue ==
    [ni |-> 1, ns |-> 0, na |-> 0, init |-> << >>, gates |-> << >>,
     next |-> << >>, err |-> 1]
\* test/verifier.cpp "Unsafe when input is false in the initial state"
InputFalse ==
    [ni |-> 1, ns |-> 0, na |-> 0, init |-> << >>, gates |-> << >>,
     next |-> << >>, err |-> -1]
\* test/verifier.cpp "Unsafe state reached in one step"
OneStep ==
    [ni |-> 0, ns |-> 1, na |-> 0, init |-> << -1 >>, gates |-> << >>,
     next |-> << TrueLit >>, err |-> 1]
\* test/verifier.cpp "Unsafe four state system": i = 1, x = 2, y = 3,
\* x' = 4, y' = 5, gates 6..12
FourState ==
    [ni |-> 1, ns |-> 2, na |-> 7, init |-> << -2, -3 >>,
     gates |-> << << -2, -1 >>, << -3, 1 >>, << 2, 3 >>, << 2, 1 >>,
                  << 3, -1 >>, << -6, -9 >>, << -7, -10 >> >>,
     next |-> << -11, -12 >>, err |-> 8]
\* test/verifier.cpp "Trivially safe four state system": the error is the
\* constant false, so no latch is in its cone and no gate is clausified.
TriviallySafe ==
    [ni |-> 1, ns |-> 0, na |-> 7, init |-> << >>,
     gates |-> [g \in 1..7 |-> << TrueLit, TrueLit >>],
     next |-> << >>, err |-> FalseLit]
\* test/verifier.cpp "Unsafe state is not reachable in a two state system"
TwoStateSafe ==
    [ni |-> 0, ns |-> 1, na |-> 0, init |-> << -1 >>, gates |-> << >>,
     next |-> << 1 >>, err |-> 1]
\* "aag 3 1 1 1 1 / 2 / 4 7 / 6 / 6 4 2": the latch w takes the negation
\* of the gate w /\ i, which is also the error: i = 1, w = 2, gate = 4.
SharedGate ==
    [ni |-> 1, ns |-> 1, na |-> 1, init |-> << -2 >>,
     gates |-> << << 2, 1 >> >>, next |-> << -4 >>, err |-> 4]
\* one latch x' = i, error x /\ -i: i = 1, x = 2, gate = 4
OneStepInput ==
    [ni |-> 1, ns |-> 1, na |-> 1, init |-> << -2 >>,
     gates |-> << << 2, -1 >> >>, next |-> << 1 >>, err |-> 4]
\* no latch, error i0 /\ -i1: i0 = 1, i1 = 2, gate = 3
TwoInputs ==
    [ni |-> 2, ns |-> 0, na |-> 1, init |-> << >>,
     gates |-> << << 1, -2 >> >>, next |-> << >>, err |-> 3]
\* two-bit counter, error at 3 (the shape of test/verifier.cpp "Simple
\* counter with an error after 16 steps"): x0 = 1, x1 = 2, gates 5..8
Counter2 ==
    [ni |-> 0, ns |-> 2, na |-> 4, init |-> << -1, -2 >>,
     gates |-> << << 2, -1 >>, << -2, 1 >>, << -5, -6 >>, << 1, 2 >> >>,
     next |-> << -1, -7 >>, err |-> 8]
\* x' = i, y' = y /\ x, error y: y never rises.  i = 1, x = 2, y = 3
SafeReach ==
    [ni |-> 1, ns |-> 2, na |-> 1, init |-> << -2, -3 >>,
     gates |-> << << 3, 2 >> >>, next |-> << 1, 6 >>, err |-> 3]
\* x0' = -x0, x1' = x1, error x0 /\ x1: x1 never rises.  x0 = 1, x1 = 2,
\* gate = 5
Toggle ==
    [ni |-> 0, ns |-> 2, na |-> 1, init |-> << -1, -2 >>,
     gates |-> << << 1, 2 >> >>, next |-> << -1, 2 >>, err |-> 5]

\* test/verifier.cpp "Simple counter with an error after 16 steps": the
\* latches 2, 4, 6, 8 of the AIGER text are x = 1..4, the gates 10..32 are
\* 9..20
Counter4 ==
    [ni |-> 0, ns |-> 4, na |-> 12, init |-> << -1, -2, -3, -4 >>,
     gates |-> << << 4, 3 >>, << 9, 2 >>, << 10, 1 >>, << -10, -1 >>,
                  << -12, -11 >>, << -9, -2 >>, << -14, -10 >>, << -4, -3 >>,
                  << -16, -9 >>, << 2, 1 >>, << 18, 3 >>, << 19, 4 >> >>,
     next |-> << 13, 15, 17, -4 >>, err |-> 20]
\* x' = -x, error x /\ -x: the error cone is a gate no state satisfies.
\* x = 1, gate = 3
Contradiction ==
    [ni |-> 0, ns |-> 1, na |-> 1, init |-> << -1 >>,
     gates |-> << << 1, -1 >> >>, next |-> << -1 >>, err |-> 3]

Systems ==
    << UnsafeInit, InputTrue, InputFalse, OneStep, FourState, TriviallySafe,
       TwoStateSafe, SharedGate, OneStepInput, TwoInputs, Counter2,
       SafeReach, Toggle, Counter4, Contradiction >>

SysIds == 1..Len(Systems)

\* make_context: the four ranges of a system
input_vars(S) == Range(1, S.ni)
state_vars(S) == Range(1 + S.ni, S.ns)
next_state_vars(S) == Range(1 + S.ni + S.ns, S.ns)
aux_vars(S) == Range(1 + S.ni + 2 * S.ns, S.na)
BuilderNextId(S) == 1 + S.ni + 2 * S.ns + S.na

(***************************************************************************)
(* Meaning of the CNF formulas of a system.  The Tseitin clauses of a gate *)
(* (clausify_and) force the gate variable to the conjunction of its two    *)
(* literals, so under trans or error a gate in the clausified cone has the *)
(* value computed here from the state x and the inputs y (sets of true     *)
(* variable ids).                                                          *)
(***************************************************************************)
RECURSIVE LitVal(_, _, _, _)
LitVal(S, l, x, y) ==
    IF l = TrueLit THEN TRUE
    ELSE IF l = FalseLit THEN FALSE
    ELSE LET v == Var(l)
             val == IF Contains(input_vars(S), v) THEN v \in y
                    ELSE IF Contains(state_vars(S), v) THEN v \in x
                    ELSE LET p == S.gates[Offset(aux_vars(S), v) + 1]
                         IN  LitVal(S, p[1], x, y) /\ LitVal(S, p[2], x, y)
         IN  IF Positive(l) THEN val ELSE ~val

\* clausify_subgraph: the gates reached from the required literals
RECURSIVE Cone(_, _)
Cone(S, required) ==
    LET gs == {Var(l) : l \in {r \in required : r # TrueLit /\ r # FalseLit
                                  /\ Contains(aux_vars(S), Var(r))}}
        more == UNION {SeqToSet(S.gates[Offset(aux_vars(S), g) + 1]) : g \in gs}
    IN  IF more \subseteq required THEN gs ELSE Cone(S, required \cup more)

TransCone(S) == Cone(S, SeqToSet(S.next))
ErrorCone(S) == Cone(S, {S.err})

AllStates(S) == SUBSET RangeVars(state_vars(S))
AllInputs(S) == SUBSET RangeVars(input_vars(S))

\* trans: x' <-> next literal for every latch (with the gates it needs)
NextState(S, x, y) ==
    {Nth(state_vars(S), j - 1) :
        j \in {k \in 1..S.ns : LitVal(S, S.next[k], x, y)}}

\* The tables are computed once per system.
NextTab ==
    [i \in SysIds |->
        [p \in AllStates(Systems[i]) \X AllInputs(Systems[i]) |->
            NextState(Systems[i], p[1], p[2])]]

\* the values trans or error force on the gate variables of a cone
GateTab ==
    [i \in SysIds |->
        [p \in AllStates(Systems[i]) \X AllInputs(Systems[i]) |->
            {g \in RangeVars(aux_vars(Systems[i])) :
                LitVal(Systems[i], g, p[1], p[2])}]]

ErrorTab ==
    [i \in SysIds |->
        {p \in AllStates(Systems[i]) \X AllInputs(Systems[i]) :
            LitVal(Systems[i], Systems[i].err, p[1], p[2])}]

TransConeTab == [i \in SysIds |-> TransCone(Systems[i])]
ErrorConeTab == [i \in SysIds |-> ErrorCone(Systems[i])]

\* init is a cube over the state variables
InitHolds(S, x) ==
    \A k \in 1..Len(S.init) :
        IF Positive(S.init[k]) THEN S.init[k] \in x ELSE -S.init[k] \notin x

(***************************************************************************)
(* The SAT wrapper (class solver).  A solver is the set of formulas and    *)
(* clauses asserted so far plus what the last solve left behind.  The big  *)
(* formulas are kept by name with the variable that activates them (0 for  *)
(* none); blocked-arrow clauses are kept literal by literal.               *)
(***************************************************************************)
EmptySolver ==
    [formulas |-> {}, clauses |-> {}, status |-> "none", assumed |-> {},
     model |-> {}]

Formula(name, act) == [name |-> name, act |-> act]

assert_formula(solver, f) == [solver EXCEPT !.formulas = @ \cup {f}]
\* a solver that keeps only the clause asserted last
assert_clause_only(solver, cl) == [solver EXCEPT !.clauses = {cl}]
assert_clause(solver, cl) == [solver EXCEPT !.clauses = @ \cup {cl}]

S0 == Systems[sys]

\* the part of an assignment M that lies in a range, renamed to X resp. Y
StateAt(M, range) ==
    {Nth(state_vars(S0), Offset(range, v)) : v \in M \cap RangeVars(range)}
InputsAt(M, range) ==
    {Nth(input_vars(S0), Offset(range, v)) : v \in M \cap RangeVars(range)}

\* the state and the inputs a formula reads its gates from, and the range
\* its gate variables live in ("A": aux_vars, "A2": _right_aux_vars)
FormulaArgs(name, M) ==
    CASE name = "init" -> << StateAt(M, state_vars(S0)), {} >>
      [] name = "error" ->
            << StateAt(M, state_vars(S0)), InputsAt(M, input_vars(S0)) >>
      [] name = "next_state_error" ->
            << StateAt(M, next_state_vars(S0)), InputsAt(M, input_vars(S0)) >>
      [] name = "shifted_error" ->
            << StateAt(M, next_state_vars(S0)), InputsAt(M, right_input_vars) >>
      [] name = "trans" ->
            << StateAt(M, state_vars(S0)), InputsAt(M, input_vars(S0)) >>
      [] name = "left_trans" ->
            << StateAt(M, state_vars(S0)), InputsAt(M, input_vars(S0)) >>
      [] name = "right_trans" ->
            << StateAt(M, middle_state_vars), InputsAt(M, right_input_vars) >>

FormulaTarget(name, M) ==
    CASE name = "trans" -> StateAt(M, next_state_vars(S0))
      [] name = "left_trans" -> StateAt(M, middle_state_vars)
      [] name = "right_trans" -> StateAt(M, next_state_vars(S0))

IsTrans(name) == name \in {"trans", "left_trans", "right_trans"}
IsError(name) == name \in {"error", "next_state_error", "shifted_error"}

FormulaAux(name) == IF name = "right_trans" THEN "A2" ELSE "A"

FormulaCone(name) ==
    IF IsTrans(name) THEN TransConeTab[sys]
    ELSE IF IsError(name) THEN ErrorConeTab[sys]
    ELSE {}

FormulaHolds(name, M) ==
    IF name = "init" THEN InitHolds(S0, FormulaArgs(name, M)[1])
    ELSE IF IsTrans(name)
         THEN FormulaTarget(name, M) = NextTab[sys][FormulaArgs(name, M)]
         ELSE FormulaArgs(name, M) \in ErrorTab[sys]

\* two formulas over the same gate variables must give them the same values
AuxAgree(f1, f2, M) ==
    \/ FormulaAux(f1) # FormulaAux(f2)
    \/ \A g \in FormulaCone(f1) \cap FormulaCone(f2) :
          (g \in GateTab[sys][FormulaArgs(f1, M)])
              = (g \in GateTab[sys][FormulaArgs(f2, M)])

Active(f, assm) == f.act = 0 \/ f.act \in assm

\* the variables a formula constrains (gate variables apart)
Support(name) ==
    CASE name = "init" -> RangeVars(state_vars(S0))
      [] name = "error" ->
            RangeVars(state_vars(S0)) \cup RangeVars(input_vars(S0))
      [] name = "next_state_error" ->
            RangeVars(next_state_vars(S0)) \cup RangeVars(input_vars(S0))
      [] name = "shifted_error" ->
            RangeVars(next_state_vars(S0)) \cup RangeVars(right_input_vars)
      [] name = "trans" ->
            RangeVars(state_vars(S0)) \cup RangeVars(input_vars(S0))
                \cup RangeVars(next_state_vars(S0))
      [] name = "left_trans" ->
            RangeVars(state_vars(S0)) \cup RangeVars(input_vars(S0))
                \cup RangeVars(middle_state_vars)
      [] name = "right_trans" ->
            RangeVars(middle_state_vars) \cup RangeVars(right_input_vars)
                \cup RangeVars(next_state_vars(S0))

ModelVars ==
    RangeVars(input_vars(S0)) \cup RangeVars(state_vars(S0))
        \cup RangeVars(next_state_vars(S0)) \cup RangeVars(middle_state_vars)
        \cup RangeVars(right_input_vars)

\* The variables an assignment ranges over: those the active formulas, the
\* clauses and the assumptions constrain, and those the caller reads back
\* (reads).  A variable the query does not constrain has any value.
WorldVars(solver, assm, reads) ==
    LET act == {f.name : f \in {g \in solver.formulas : Active(g, assm)}}
    IN  ModelVars \cap
        (UNION {Support(n) : n \in act}
            \cup UNION {{Var(l) : l \in SeqToSet(cl)} : cl \in solver.clauses}
            \cup {Var(l) : l \in assm} \cup reads)

Consistent(assm) == \A l \in assm : -l \notin assm

Worlds(wv, assm) ==
    LET fixed == {l \in assm : l > 0 /\ l \in wv}
        free == wv \ {Var(l) : l \in assm}
    IN  IF Consistent(assm) THEN {fixed \cup Q : Q \in SUBSET free} ELSE {}

\* a clause literal under M; a variable outside M (an activator) is true
\* iff assumed, and free when not assumed
LitSat(l, M, wv, assm) ==
    IF Var(l) \in wv THEN (l > 0) = (Var(l) \in M)
    ELSE IF l \in assm THEN TRUE
    ELSE IF -l \in assm THEN FALSE
    ELSE TRUE

ClauseSat(cl, M, wv, assm) == \E k \in 1..Len(cl) : LitSat(cl[k], M, wv, assm)

\* the satisfying assignments of a query with assumptions assm
Models(solver, assm, reads) ==
    LET wv == WorldVars(solver, assm, reads)
        act == {f.name : f \in {g \in solver.formulas : Active(g, assm)}}
    IN  {M \in Worlds(wv, assm) :
            /\ \A n \in act : FormulaHolds(n, M)
            /\ \A n1, n2 \in act : AuxAgree(n1, n2, M)
            /\ \A cl \in solver.clauses : ClauseSat(cl, M, wv, assm)}

is_sat(solver, assm) == Models(solver, assm, {}) # {}

\* what solve() leaves in the solver.  The consecution solver's models are
\* read in the step of the query itself and are not kept (model = {}).
solved(solver, assm, status, M) ==
    [solver EXCEPT !.status = status, !.assumed = assm, !.model = M]

\* solver::get_model
get_model(range, M) ==
    [k \in 1..Size(range) |->
        MkLiteral(Nth(range, k - 1), ~(Nth(range, k - 1) \in M))]

(***************************************************************************)
(* The verifier.                                                           *)
(***************************************************************************)
NoResult == [kind |-> "none", rows |-> << >>]
NoGen == [c |-> << >>, d |-> << >>]
NoProp == [i |-> 0, arrows |-> << >>, k |-> 0]

depth == Len(trace_blocked_arrows) - 1

\* activators_from( level ): frame k is entry k + 1 of the vector
activators_from(level) ==
    {trace_activators[k] : k \in (level + 1)..Len(trace_activators)}

left_input_vars == input_vars(S0)

prime(literals) == shift_literals(state_vars(S0), next_state_vars(S0), literals)
unprime(literals) == shift_literals(next_state_vars(S0), state_vars(S0), literals)
circle(literals) == shift_literals(state_vars(S0), middle_state_vars, literals)
uncircle(literals) == shift_literals(middle_state_vars, state_vars(S0), literals)

\* the verifier as its constructor leaves it, for the system with index i
Constructed(i) ==
    LET S == Systems[i]
        b == BuilderNextId(S)
    IN  /\ sys = i
        /\ middle_state_vars = Range(b, S.ns)
        /\ right_input_vars = Range(b + S.ns, S.ni)
        /\ right_aux_vars = Range(b + S.ns + S.ni, S.na)
        /\ trans_activator = b + S.ns + S.ni + S.na
        /\ store_next_id = b + S.ns + S.ni + S.na + 1
        /\ trace_activators = << >>
        /\ trace_blocked_arrows = << >>
        /\ error_solver = EmptySolver
        /\ consecution_solver = EmptySolver
        /\ slv = EmptySolver
        /\ cexes = << >>
        /\ stack = << >>
        /\ ret = "none"
        /\ gen = NoGen
        /\ prop = NoProp
        /\ result = NoResult

Init ==
    /\ \E i \in SysIds : Constructed(i)
    /\ pc = "run"
    /\ fin = << >>
    /\ fout = << >>

\* push_frame that takes the id the store handed out last
push_frame_stale ==
    /\ trace_blocked_arrows' = Append(trace_blocked_arrows, << >>)
    /\ trace_activators' = Append(trace_activators, store_next_id - 1)
    /\ store_next_id' = store_next_id

\* push_frame: the primed frame stack and store
push_frame ==
    /\ trace_blocked_arrows' = Append(trace_blocked_arrows, << >>)
    /\ trace_activators' = Append(trace_activators, store_next_id)
    /\ store_next_id' = store_next_id + 1

\* verifier::initialize
Initialize ==
    /\ pc = "run"
    /\ push_frame
    /\ error_solver' =
          assert_formula(assert_formula(error_solver, Formula("init", 0)),
                         Formula("next_state_error", 0))
    /\ consecution_solver' =
          assert_formula(
              assert_formula(
                  assert_formula(consecution_solver,
                                 Formula("trans", trans_activator)),
                  Formula("left_trans", store_next_id)),
              Formula("right_trans", store_next_id))
    /\ pc' = "trivial_init"
    /\ UNCHANGED << sys, middle_state_vars, right_input_vars, right_aux_vars,
                    trans_activator, slv, cexes, stack, ret, gen, prop,
                    result, fin, fout >>

\* check_trivial_cases, first block: I(X) /\ E(X, Y)
InitErrorSolver ==
    assert_formula(assert_formula(EmptySolver, Formula("init", 0)),
                   Formula("error", 0))

CheckInitErrorSat ==
    /\ pc = "trivial_init"
    /\ \E M \in Models(InitErrorSolver, {}, RangeVars(input_vars(S0))) :
          /\ slv' = solved(InitErrorSolver, {}, "sat", M)
          /\ result' = [kind |-> "cex",
                        rows |-> << get_model(input_vars(S0), M) >>]
    /\ pc' = "done"
    /\ UNCHANGED << sys, store_next_id, middle_state_vars, right_input_vars,
                    right_aux_vars, trans_activator, trace_activators,
                    trace_blocked_arrows, error_solver, consecution_solver,
                    cexes, stack, ret, gen, prop, fin, fout >>

CheckInitErrorUnsat ==
    /\ pc = "trivial_init"
    /\ ~is_sat(InitErrorSolver, {})
    /\ pc' = "trivial_step"
    /\ UNCHANGED << sys, store_next_id, middle_state_vars, right_input_vars,
                    right_aux_vars, trans_activator, trace_activators,
                    trace_blocked_arrows, error_solver, consecution_solver,
                    slv, cexes, stack, ret, gen, prop, result, fin, fout >>

\* check_trivial_cases, second block: I(X) /\ T(X, Y1, X') /\ E(X', Y2)
StepErrorSolver ==
    assert_formula(
        assert_formula(assert_formula(EmptySolver, Formula("init", 0)),
                       Formula("trans", 0)),
        Formula("shifted_error", 0))

\* the second block with the row of Y2 left over right_input_vars: the step
\* C9 is shown to depend on
CheckStepErrorSatUnshifted ==
    /\ pc = "trivial_step"
    /\ \E M \in Models(StepErrorSolver, {},
                      RangeVars(left_input_vars) \cup RangeVars(right_input_vars)) :
          /\ slv' = solved(StepErrorSolver, {}, "sat", M)
          /\ result' =
                [kind |-> "cex",
                 rows |-> << get_model(left_input_vars, M),
                             get_model(right_input_vars, M) >>]
    /\ pc' = "done"
    /\ UNCHANGED << sys, store_next_id, middle_state_vars, right_input_vars,
                    right_aux_vars, trans_activator, trace_activators,
                    trace_blocked_arrows, error_solver, consecution_solver,
                    cexes, stack, ret, gen, prop, fin, fout >>

CheckStepErrorSat ==
    /\ pc = "trivial_step"
    /\ \E M \in Models(StepErrorSolver, {},
                      RangeVars(left_input_vars) \cup RangeVars(right_input_vars)) :
          /\ slv' = solved(StepErrorSolver, {}, "sat", M)
          /\ result' =
                [kind |-> "cex",
                 rows |-> << shift_literals(left_input_vars, input_vars(S0),
                                 get_model(left_input_vars, M)),
                             shift_literals(right_input_vars, input_vars(S0),
                                 get_model(right_input_vars, M)) >>]
    /\ pc' = "done"
    /\ UNCHANGED << sys, store_next_id, middle_state_vars, right_input_vars,
                    right_aux_vars, trans_activator, trace_activators,
                    trace_blocked_arrows, error_solver, consecution_solver,
                    cexes, stack, ret, gen, prop, fin, fout >>

\* check that enters the loop without frame 1
CheckStepErrorUnsatNoPush ==
    /\ pc = "trivial_step"
    /\ ~is_sat(StepErrorSolver, {})
    /\ pc' = "loop"
    /\ UNCHANGED << sys, store_next_id, middle_state_vars, right_input_vars,
                    right_aux_vars, trans_activator, trace_activators,
                    trace_blocked_arrows, error_solver, consecution_solver,
                    slv, cexes, stack, ret, gen, prop, result, fin, fout >>

\* no counterexample of size 0 or 1: check() pushes frame 1
CheckStepErrorUnsat ==
    /\ pc = "trivial_step"
    /\ ~is_sat(StepErrorSolver, {})
    /\ push_frame
    /\ pc' = "loop"
    /\ UNCHANGED << sys, middle_state_vars, right_input_vars, right_aux_vars,
                    trans_activator, error_solver, consecution_solver, slv,
                    cexes, stack, ret, gen, prop, result, fin, fout >>

(***************************************************************************)
(* The cex pool.  Handles count from 0 as in pool::make; an optional is    *)
(* the empty set or a singleton.                                           *)
(***************************************************************************)
cex_entry(s, t, inputs) ==
    [s_state_vars |-> s, t_state_vars |-> t, input_vars |-> inputs,
     left |-> {}, right |-> {}]

cex_get(pool, handle) == pool[handle + 1]

get_s(po) == cex_get(cexes, po.handle).s_state_vars
get_t(po) == cex_get(cexes, po.handle).t_state_vars
get_inputs(po) == cex_get(cexes, po.handle).input_vars

\* a call of solve_obligation( po ): the obligation, the position in the
\* body, and the local pair of split_obligation
Call(handle, level) ==
    [handle |-> handle, level |-> level, pc |-> "enter", left |-> 0,
     right |-> 0]

Top == stack[Len(stack)]
Pop == SubSeq(stack, 1, Len(stack) - 1)
SetTop(f) == [stack EXCEPT ![Len(stack)] = f]

\* get_error_cex, SAT: a new root obligation, solved at level depth()
GetErrorCexSat ==
    /\ pc = "loop"
    /\ \E M \in Models(error_solver, activators_from(depth),
                       RangeVars(state_vars(S0))
                           \cup RangeVars(next_state_vars(S0))
                           \cup RangeVars(input_vars(S0))) :
          /\ cexes' = Append(cexes,
                 cex_entry(get_model(state_vars(S0), M),
                           unprime(get_model(next_state_vars(S0), M)),
                           {get_model(input_vars(S0), M)}))
          /\ error_solver' =
                 solved(error_solver, activators_from(depth), "sat", M)
    /\ stack' = << Call(Len(cexes), depth) >>
    /\ pc' = "solve"
    /\ UNCHANGED << sys, store_next_id, middle_state_vars, right_input_vars,
                    right_aux_vars, trans_activator, trace_activators,
                    trace_blocked_arrows, consecution_solver, slv, ret, gen,
                    prop, result, fin, fout >>

\* get_error_cex taken as UNSAT without the answer of the error solver: the
\* step C2 is shown to depend on
GetErrorCexUnsatBlind ==
    /\ pc = "loop"
    /\ depth < MaxDepth
    /\ error_solver' = solved(error_solver, activators_from(depth), "unsat", {})
    /\ push_frame
    /\ prop' = [i |-> 1, arrows |-> trace_blocked_arrows[2], k |-> 1]
    /\ pc' = "propagate"
    /\ UNCHANGED << sys, middle_state_vars, right_input_vars, right_aux_vars,
                    trans_activator, consecution_solver, slv, cexes, stack,
                    ret, gen, result, fin, fout >>

\* get_error_cex, UNSAT: push a frame and start propagate at level 1
GetErrorCexUnsat ==
    /\ pc = "loop"
    /\ depth < MaxDepth
    /\ ~is_sat(error_solver, activators_from(depth))
    /\ error_solver' = solved(error_solver, activators_from(depth), "unsat", {})
    /\ push_frame
    /\ prop' = [i |-> 1, arrows |-> trace_blocked_arrows[2], k |-> 1]
    /\ pc' = "propagate"
    /\ UNCHANGED << sys, middle_state_vars, right_input_vars, right_aux_vars,
                    trans_activator, consecution_solver, slv, cexes, stack,
                    ret, gen, result, fin, fout >>

\* the assumptions of has_concrete_edge
EdgeAssumptions(s, t) ==
    {trans_activator} \cup SeqToSet(s) \cup SeqToSet(prime(t))

\* a split query that assumes the activators of every frame
PathAssumptionsAllFrames(level, s, t) ==
    activators_from(0) \cup SeqToSet(s) \cup SeqToSet(prime(t))

\* the assumptions of split_path and of propagate
PathAssumptions(level, s, t) ==
    activators_from(level) \cup SeqToSet(s) \cup SeqToSet(prime(t))

\* solve_obligation: s == t
SolveEqual ==
    /\ pc = "solve" /\ stack # << >> /\ Top.pc = "enter"
    /\ get_s(Top) = get_t(Top)
    /\ stack' = Pop
    /\ ret' = "true"
    /\ UNCHANGED << sys, pc, store_next_id, middle_state_vars,
                    right_input_vars, right_aux_vars, trans_activator,
                    trace_activators, trace_blocked_arrows, error_solver,
                    consecution_solver, slv, cexes, gen, prop, result, fin,
                    fout >>

\* has_concrete_edge, SAT: the inputs of the edge are stored in the node
SolveConcreteEdge ==
    /\ pc = "solve" /\ stack # << >> /\ Top.pc = "enter"
    /\ get_s(Top) # get_t(Top)
    /\ \E M \in Models(consecution_solver,
                       EdgeAssumptions(get_s(Top), get_t(Top)),
                       RangeVars(input_vars(S0))) :
          cexes' = [cexes EXCEPT ![Top.handle + 1].input_vars =
                       {get_model(input_vars(S0), M)}]
    /\ consecution_solver' =
          solved(consecution_solver, EdgeAssumptions(get_s(Top), get_t(Top)),
                 "sat", {})
    /\ stack' = Pop
    /\ ret' = "true"
    /\ UNCHANGED << sys, pc, store_next_id, middle_state_vars,
                    right_input_vars, right_aux_vars, trans_activator,
                    trace_activators, trace_blocked_arrows, error_solver, slv,
                    gen, prop, result, fin, fout >>

\* solve_obligation giving up after has_concrete_edge at every level, as it
\* does at level 0: the step C21 is shown to depend on
SolveNoEdgeGiveUp ==
    /\ pc = "solve" /\ stack # << >> /\ Top.pc = "enter"
    /\ get_s(Top) # get_t(Top)
    /\ ~is_sat(consecution_solver, EdgeAssumptions(get_s(Top), get_t(Top)))
    /\ consecution_solver' =
          solved(consecution_solver, EdgeAssumptions(get_s(Top), get_t(Top)),
                 "unsat", {})
    /\ stack' = Pop /\ ret' = "false"
    /\ UNCHANGED << sys, pc, store_next_id, middle_state_vars,
                    right_input_vars, right_aux_vars, trans_activator,
                    trace_activators, trace_blocked_arrows, error_solver, slv,
                    cexes, gen, prop, result, fin, fout >>

\* has_concrete_edge, UNSAT: level 0 returns false, the others go on to
\* split_path
SolveNoEdge ==
    /\ pc = "solve" /\ stack # << >> /\ Top.pc = "enter"
    /\ get_s(Top) # get_t(Top)
    /\ ~is_sat(consecution_solver, EdgeAssumptions(get_s(Top), get_t(Top)))
    /\ consecution_solver' =
          solved(consecution_solver, EdgeAssumptions(get_s(Top), get_t(Top)),
                 "unsat", {})
    /\ IF Top.level = 0
       THEN stack' = Pop /\ ret' = "false"
       ELSE stack' = SetTop([Top EXCEPT !.pc = "split"]) /\ ret' = ret
    /\ UNCHANGED << sys, pc, store_next_id, middle_state_vars,
                    right_input_vars, right_aux_vars, trans_activator,
                    trace_activators, trace_blocked_arrows, error_solver, slv,
                    cexes, gen, prop, result, fin, fout >>

\* split_path that records the left child only
split_children_left_only(po, M) ==
    LET u == uncircle(get_model(middle_state_vars, M))
        made == cexes \o << cex_entry(get_s(po), u, {}),
                            cex_entry(u, get_t(po), {}) >>
    IN  [made EXCEPT ![po.handle + 1].left = {Len(cexes)}]

\* split_path, SAT: the two children made from the model M, and the parent
\* pointing at them
split_children(po, M) ==
    LET u == uncircle(get_model(middle_state_vars, M))
        left_inputs ==
            IF po.level = 1
            THEN {shift_literals(left_input_vars, input_vars(S0),
                                 get_model(left_input_vars, M))}
            ELSE {}
        right_inputs ==
            IF po.level = 1
            THEN {shift_literals(right_input_vars, input_vars(S0),
                                 get_model(right_input_vars, M))}
            ELSE {}
        left == Len(cexes)
        right == Len(cexes) + 1
        made == cexes \o << cex_entry(get_s(po), u, left_inputs),
                            cex_entry(u, get_t(po), right_inputs) >>
    IN  [made EXCEPT ![po.handle + 1].left = {left},
                     ![po.handle + 1].right = {right}]

SplitReads(level) ==
    RangeVars(middle_state_vars) \cup
    (IF level = 1
     THEN RangeVars(left_input_vars) \cup RangeVars(right_input_vars)
     ELSE {})

\* has_path_of_length_two, SAT (level 1): both children are concrete edges
SplitPathLevelOne ==
    /\ pc = "solve" /\ stack # << >> /\ Top.pc = "split"
    /\ Top.level = 1
    /\ \E M \in Models(consecution_solver,
                       PathAssumptions(0, get_s(Top), get_t(Top)),
                       SplitReads(1)) :
          cexes' = split_children(Top, M)
    /\ consecution_solver' =
          solved(consecution_solver,
                 PathAssumptions(0, get_s(Top), get_t(Top)), "sat", {})
    /\ stack' = Pop
    /\ ret' = "true"
    /\ UNCHANGED << sys, pc, store_next_id, middle_state_vars,
                    right_input_vars, right_aux_vars, trans_activator,
                    trace_activators, trace_blocked_arrows, error_solver, slv,
                    gen, prop, result, fin, fout >>

\* split_obligation taken at level 1 as well, with children of level 0
SplitObligationFromOne ==
    /\ pc = "solve" /\ stack # << >> /\ Top.pc = "split"
    /\ Top.level >= 1
    /\ Len(cexes) < MaxCexes
    /\ \E M \in Models(consecution_solver,
                       PathAssumptions(Top.level - 1, get_s(Top), get_t(Top)),
                       SplitReads(Top.level)) :
          cexes' = split_children(Top, M)
    /\ consecution_solver' =
          solved(consecution_solver,
                 PathAssumptions(Top.level - 1, get_s(Top), get_t(Top)),
                 "sat", {})
    /\ stack' = Append(SetTop([Top EXCEPT !.pc = "wait_left",
                                          !.left = Len(cexes),
                                          !.right = Len(cexes) + 1]),
                       Call(Len(cexes), Top.level - 1))
    /\ UNCHANGED << sys, pc, store_next_id, middle_state_vars,
                    right_input_vars, right_aux_vars, trans_activator,
                    trace_activators, trace_blocked_arrows, error_solver, slv,
                    ret, gen, prop, result, fin, fout >>

\* split_obligation, SAT (level >= 2): solve_obligation( left ) is called
SplitObligation ==
    /\ pc = "solve" /\ stack # << >> /\ Top.pc = "split"
    /\ Top.level >= 2
    /\ Len(cexes) < MaxCexes
    /\ \E M \in Models(consecution_solver,
                       PathAssumptions(Top.level - 1, get_s(Top), get_t(Top)),
                       SplitReads(Top.level)) :
          cexes' = split_children(Top, M)
    /\ consecution_solver' =
          solved(consecution_solver,
                 PathAssumptions(Top.level - 1, get_s(Top), get_t(Top)),
                 "sat", {})
    /\ stack' = Append(SetTop([Top EXCEPT !.pc = "wait_left",
                                          !.left = Len(cexes),
                                          !.right = Len(cexes) + 1]),
                       Call(Len(cexes), Top.level - 1))
    /\ UNCHANGED << sys, pc, store_next_id, middle_state_vars,
                    right_input_vars, right_aux_vars, trans_activator,
                    trace_activators, trace_blocked_arrows, error_solver, slv,
                    ret, gen, prop, result, fin, fout >>

\* solve_obligation( left ) returned true: solve_obligation( right )
ResumeLeftTrue ==
    /\ pc = "solve" /\ stack # << >> /\ Top.pc = "wait_left"
    /\ ret = "true"
    /\ stack' = Append(SetTop([Top EXCEPT !.pc = "wait_right"]),
                       Call(Top.right, Top.level - 1))
    /\ ret' = "none"
    /\ UNCHANGED << sys, pc, store_next_id, middle_state_vars,
                    right_input_vars, right_aux_vars, trans_activator,
                    trace_activators, trace_blocked_arrows, error_solver,
                    consecution_solver, slv, cexes, gen, prop, result, fin,
                    fout >>

\* both children returned true: return true
ResumeRightTrue ==
    /\ pc = "solve" /\ stack # << >> /\ Top.pc = "wait_right"
    /\ ret = "true"
    /\ stack' = Pop
    /\ UNCHANGED << sys, pc, store_next_id, middle_state_vars,
                    right_input_vars, right_aux_vars, trans_activator,
                    trace_activators, trace_blocked_arrows, error_solver,
                    consecution_solver, slv, cexes, ret, gen, prop, result,
                    fin, fout >>

\* a child returned false: pair = split_obligation( po ) again
ResumeChildFalse ==
    /\ pc = "solve" /\ stack # << >> /\ Top.pc \in {"wait_left", "wait_right"}
    /\ ret = "false"
    /\ stack' = SetTop([Top EXCEPT !.pc = "split"])
    /\ ret' = "none"
    /\ UNCHANGED << sys, pc, store_next_id, middle_state_vars,
                    right_input_vars, right_aux_vars, trans_activator,
                    trace_activators, trace_blocked_arrows, error_solver,
                    consecution_solver, slv, cexes, gen, prop, result, fin,
                    fout >>

\* the literals of a cube that get_core keeps, in the order of the cube
core_of(literals, failed) == SelectSeq(literals, LAMBDA l : l \in failed)

\* generalize_blocked_arrow up to the closure loop: the cores and the repair
\* of an intersection
generalize_cores(s, t, C, D) ==
    LET c == core_of(s, C)
        d == core_of(t, D)
        diff == find_conflict_sorted(s, t)
    IN  IF intersects_sorted(c, d) /\ diff # << >>
        THEN [c |-> insert_sorted(c, diff[1]), d |-> insert_sorted(d, -diff[1])]
        ELSE [c |-> c, d |-> d]

\* split_path, UNSAT: generalize_blocked_arrow starts from a core of the
\* query, which is any unsatisfiable part of the assumed cubes
SplitUnsat ==
    /\ pc = "solve" /\ stack # << >> /\ Top.pc = "split"
    /\ ~is_sat(consecution_solver,
               PathAssumptions(Top.level - 1, get_s(Top), get_t(Top)))
    /\ \E C \in SUBSET SeqToSet(get_s(Top)), D \in SUBSET SeqToSet(get_t(Top)) :
          /\ ~is_sat(consecution_solver,
                     activators_from(Top.level - 1) \cup C
                         \cup SeqToSet(prime(core_of(get_t(Top), D))))
          /\ gen' = generalize_cores(get_s(Top), get_t(Top), C, D)
    /\ consecution_solver' =
          solved(consecution_solver,
                 PathAssumptions(Top.level - 1, get_s(Top), get_t(Top)),
                 "unsat", {})
    /\ stack' = SetTop([Top EXCEPT !.pc = "closure"])
    /\ UNCHANGED << sys, pc, store_next_id, middle_state_vars,
                    right_input_vars, right_aux_vars, trans_activator,
                    trace_activators, trace_blocked_arrows, error_solver, slv,
                    cexes, ret, prop, result, fin, fout >>

\* every literal over the state variables: what a read of an empty optional
\* can yield
StateLiterals ==
    {MkLiteral(v, b) : v \in RangeVars(state_vars(S0)), b \in BOOLEAN}

\* the closure loop taking the literal it adds from a second random draw
\* instead of the model of its query: the step C11 is shown to depend on
ClosureStepRandomLiteral ==
    /\ pc = "solve" /\ stack # << >> /\ Top.pc = "closure"
    /\ Len(gen.c) < MaxPushBack /\ Len(gen.d) < MaxPushBack
    /\ is_sat(consecution_solver, EdgeAssumptions(gen.c, gen.d))
    /\ \E add_to_c \in BOOLEAN, wild \in StateLiterals :
          IF add_to_c
          THEN gen' = [gen EXCEPT !.c = Append(@, wild)]
          ELSE gen' = [gen EXCEPT !.d = Append(@, wild)]
    /\ consecution_solver' =
          solved(consecution_solver, EdgeAssumptions(gen.c, gen.d), "sat", {})
    /\ UNCHANGED << sys, pc, store_next_id, middle_state_vars,
                    right_input_vars, right_aux_vars, trans_activator,
                    trace_activators, trace_blocked_arrows, error_solver, slv,
                    cexes, stack, ret, prop, result, fin, fout >>

\* one iteration of the closure loop: c /\ T /\ d' is SAT
ClosureStep ==
    /\ pc = "solve" /\ stack # << >> /\ Top.pc = "closure"
    /\ Len(gen.c) < MaxPushBack /\ Len(gen.d) < MaxPushBack
    /\ \E M \in Models(consecution_solver, EdgeAssumptions(gen.c, gen.d),
                       RangeVars(state_vars(S0))
                           \cup RangeVars(next_state_vars(S0))),
          add_to_c \in BOOLEAN :
          LET ss == get_model(state_vars(S0), M)
              tt == unprime(get_model(next_state_vars(S0), M))
              c_conflict == find_conflict_sorted(get_s(Top), ss)
              d_conflict == find_conflict_sorted(get_t(Top), tt)
          IN  IF c_conflict # << >> /\ d_conflict # << >>
              THEN IF add_to_c
                   THEN gen' = [gen EXCEPT !.c = Append(@, c_conflict[1])]
                   ELSE gen' = [gen EXCEPT !.d = Append(@, d_conflict[1])]
              ELSE IF c_conflict # << >>
                   THEN gen' = [gen EXCEPT !.c = Append(@, c_conflict[1])]
                   ELSE IF d_conflict # << >>
                        THEN gen' = [gen EXCEPT !.d = Append(@, d_conflict[1])]
                        ELSE \E wild \in StateLiterals :
                                gen' = [gen EXCEPT !.d = Append(@, wild)]
    /\ consecution_solver' =
          solved(consecution_solver, EdgeAssumptions(gen.c, gen.d), "sat", {})
    /\ UNCHANGED << sys, pc, store_next_id, middle_state_vars,
                    right_input_vars, right_aux_vars, trans_activator,
                    trace_activators, trace_blocked_arrows, error_solver, slv,
                    cexes, stack, ret, prop, result, fin, fout >>

\* the sweep removing every arrow whose source the new arrow subsumes,
\* whatever its target: the test C26 is shown to depend on
RECURSIVE sweep_by_source(_, _, _, _)
sweep_by_source(arrows, i, s, t) ==
    IF i > Len(arrows) THEN arrows
    ELSE IF subsumes(s, arrows[i][1])
         THEN sweep_by_source(SubSeq([arrows EXCEPT ![i] = arrows[Len(arrows)]],
                                     1, Len(arrows) - 1), i, s, t)
         ELSE sweep_by_source(arrows, i + 1, s, t)

\* the sweep of block_arrow_at over one frame: arrows[ i ] = arrows.back()
RECURSIVE sweep(_, _, _, _)
sweep(arrows, i, s, t) ==
    IF i > Len(arrows) THEN arrows
    ELSE IF subsumes(s, arrows[i][1]) /\ subsumes(t, arrows[i][2])
         THEN sweep(SubSeq([arrows EXCEPT ![i] = arrows[Len(arrows)]],
                           1, Len(arrows) - 1), i, s, t)
         ELSE sweep(arrows, i + 1, s, t)

\* block_arrow_at sweeping every frame from start_from up to the top one:
\* the range C24 is shown to depend on
block_arrow_at_to_depth(trace, s, t, level, start_from) ==
    LET swept == [k \in 1..Len(trace) |->
                     IF start_from <= k - 1
                     THEN sweep(trace[k], 1, s, t)
                     ELSE trace[k]]
    IN  [swept EXCEPT ![level + 1] = Append(@, << s, t >>)]

\* block_arrow_at: the frames, frame d being entry d + 1
block_arrow_at(trace, s, t, level, start_from) ==
    LET swept == [k \in 1..Len(trace) |->
                     IF start_from <= k - 1 /\ k - 1 <= level
                     THEN sweep(trace[k], 1, s, t)
                     ELSE trace[k]]
    IN  [swept EXCEPT ![level + 1] = Append(@, << s, t >>)]

\* block_arrow_at blocking every pair that starts in s, whatever its
\* target: the clause C27 is shown to depend on
block_error_solver_source_only(solver, s, t, level) ==
    assert_clause(solver, negate_activate(s, trace_activators[level + 1]))

\* block_arrow_at: the clause added to the error solver
block_error_solver(solver, s, t, level) ==
    assert_clause(solver,
        negate_activate(union_sorted(s, prime(t)), trace_activators[level + 1]))

\* block_arrow_at adding not( s /\ t' ) to the consecution solver as well:
\* the clause C23 is shown not to be asserted there
block_consecution_solver_three(solver, s, t, level) ==
    assert_clause(
        assert_clause(
            assert_clause(solver,
                negate_activate(union_sorted(s, prime(t)),
                                trace_activators[level + 1])),
            negate_activate(union_sorted(s, circle(t)),
                            trace_activators[level + 1])),
        negate_activate(union_sorted(prime(t), circle(s)),
                        trace_activators[level + 1]))

\* block_arrow_at: the two clauses added to the consecution solver
block_consecution_solver(solver, s, t, level) ==
    assert_clause(
        assert_clause(solver,
            negate_activate(union_sorted(s, circle(t)),
                            trace_activators[level + 1])),
        negate_activate(union_sorted(prime(t), circle(s)),
                        trace_activators[level + 1]))

\* generalize_blocked_arrow leaving the closure loop while c /\ T /\ d' can
\* still be SAT: the step C20 is shown to depend on
BlockGeneralizedEarly ==
    /\ pc = "solve" /\ stack # << >> /\ Top.pc = "closure"
    /\ LET c == sort_literals(gen.c)
           d == sort_literals(gen.d)
       IN  /\ trace_blocked_arrows' =
                 block_arrow_at(trace_blocked_arrows, c, d, Top.level, 1)
           /\ error_solver' = block_error_solver(error_solver, c, d, Top.level)
           /\ consecution_solver' =
                 block_consecution_solver(
                     solved(consecution_solver, EdgeAssumptions(gen.c, gen.d),
                            "unsat", {}),
                     c, d, Top.level)
    /\ gen' = NoGen
    /\ stack' = Pop
    /\ ret' = "false"
    /\ UNCHANGED << sys, pc, store_next_id, middle_state_vars,
                    right_input_vars, right_aux_vars, trans_activator,
                    trace_activators, slv, cexes, prop, result, fin, fout >>

\* the closure loop ends (c /\ T /\ d' is UNSAT): c and d are sorted, the
\* arrow is blocked at po.level() and solve_obligation returns false
BlockGeneralized ==
    /\ pc = "solve" /\ stack # << >> /\ Top.pc = "closure"
    /\ ~is_sat(consecution_solver, EdgeAssumptions(gen.c, gen.d))
    /\ LET c == sort_literals(gen.c)
           d == sort_literals(gen.d)
       IN  /\ trace_blocked_arrows' =
                 block_arrow_at(trace_blocked_arrows, c, d, Top.level, 1)
           /\ error_solver' = block_error_solver(error_solver, c, d, Top.level)
           /\ consecution_solver' =
                 block_consecution_solver(
                     solved(consecution_solver, EdgeAssumptions(gen.c, gen.d),
                            "unsat", {}),
                     c, d, Top.level)
    /\ gen' = NoGen
    /\ stack' = Pop
    /\ ret' = "false"
    /\ UNCHANGED << sys, pc, store_next_id, middle_state_vars,
                    right_input_vars, right_aux_vars, trans_activator,
                    trace_activators, slv, cexes, prop, result, fin, fout >>

\* the row with a positive literal for a variable the cube leaves out: the
\* default C10 is shown to depend on
row_of_positive(inputs, cube) ==
    [k \in 1..Size(inputs) |->
        LET found == cube_find(cube, Nth(inputs, k - 1))
        IN  IF found # << >> THEN found[1]
            ELSE MkLiteral(Nth(inputs, k - 1), TRUE)]

\* the row build_counterexample makes of the input cube of a node
row_of(inputs, cube) ==
    [k \in 1..Size(inputs) |->
        LET found == cube_find(cube, Nth(inputs, k - 1))
        IN  IF found # << >> THEN found[1]
            ELSE MkLiteral(Nth(inputs, k - 1), FALSE)]

\* build_counterexample: visit( handle )
RECURSIVE visit(_, _)
visit(pool, handle) ==
    IF handle = {} THEN << >>
    ELSE LET cex == cex_get(pool, CHOOSE h \in handle : TRUE)
         IN  visit(pool, cex.left) \o visit(pool, cex.right) \o
             (IF cex.input_vars # {}
              THEN << row_of(input_vars(S0),
                             CHOOSE c \in cex.input_vars : TRUE) >>
              ELSE << >>)

build_counterexample(root) == visit(cexes, {root})

\* check(): solve_obligation of the root returned true
BuildCounterexample ==
    /\ pc = "solve" /\ stack = << >>
    /\ ret = "true"
    /\ result' = [kind |-> "cex", rows |-> build_counterexample(0)]
    /\ pc' = "done"
    /\ UNCHANGED << sys, store_next_id, middle_state_vars, right_input_vars,
                    right_aux_vars, trans_activator, trace_activators,
                    trace_blocked_arrows, error_solver, consecution_solver,
                    slv, cexes, stack, ret, gen, prop, fin, fout >>

\* check() going round the loop without _cexes.clear()
ClearCexesSkipped ==
    /\ pc = "solve" /\ stack = << >>
    /\ ret = "false"
    /\ ret' = "none"
    /\ pc' = "loop"
    /\ UNCHANGED << sys, store_next_id, middle_state_vars, right_input_vars,
                    right_aux_vars, trans_activator, trace_activators,
                    trace_blocked_arrows, error_solver, consecution_solver,
                    slv, cexes, stack, gen, prop, result, fin, fout >>

\* check(): solve_obligation of the root returned false; _cexes.clear()
ClearCexes ==
    /\ pc = "solve" /\ stack = << >>
    /\ ret = "false"
    /\ cexes' = << >>
    /\ ret' = "none"
    /\ pc' = "loop"
    /\ UNCHANGED << sys, store_next_id, middle_state_vars, right_input_vars,
                    right_aux_vars, trans_activator, trace_activators,
                    trace_blocked_arrows, error_solver, consecution_solver,
                    slv, stack, gen, prop, result, fin, fout >>

PropArrow == prop.arrows[prop.k]

\* propagate that copies the arrow to level i + 1 and leaves it at level i
PropagatePushCopy ==
    /\ pc = "propagate"
    /\ prop.i < depth /\ prop.k <= Len(prop.arrows)
    /\ ~is_sat(consecution_solver,
               PathAssumptions(prop.i, PropArrow[1], PropArrow[2]))
    /\ trace_blocked_arrows' =
          block_arrow_at(trace_blocked_arrows, PropArrow[1], PropArrow[2],
                         prop.i + 1, prop.i + 1)
    /\ error_solver' =
          block_error_solver(error_solver, PropArrow[1], PropArrow[2],
                             prop.i + 1)
    /\ consecution_solver' =
          block_consecution_solver(
              solved(consecution_solver,
                     PathAssumptions(prop.i, PropArrow[1], PropArrow[2]),
                     "unsat", {}),
              PropArrow[1], PropArrow[2], prop.i + 1)
    /\ prop' = [prop EXCEPT !.k = @ + 1]
    /\ UNCHANGED << sys, pc, store_next_id, middle_state_vars,
                    right_input_vars, right_aux_vars, trans_activator,
                    trace_activators, slv, cexes, stack, ret, gen, result,
                    fin, fout >>

\* propagate: the arrow ( c, d ) of level i also holds at level i + 1
PropagatePush ==
    /\ pc = "propagate"
    /\ prop.i < depth /\ prop.k <= Len(prop.arrows)
    /\ ~is_sat(consecution_solver,
               PathAssumptions(prop.i, PropArrow[1], PropArrow[2]))
    /\ trace_blocked_arrows' =
          block_arrow_at(trace_blocked_arrows, PropArrow[1], PropArrow[2],
                         prop.i + 1, prop.i)
    /\ error_solver' =
          block_error_solver(error_solver, PropArrow[1], PropArrow[2],
                             prop.i + 1)
    /\ consecution_solver' =
          block_consecution_solver(
              solved(consecution_solver,
                     PathAssumptions(prop.i, PropArrow[1], PropArrow[2]),
                     "unsat", {}),
              PropArrow[1], PropArrow[2], prop.i + 1)
    /\ prop' = [prop EXCEPT !.k = @ + 1]
    /\ UNCHANGED << sys, pc, store_next_id, middle_state_vars,
                    right_input_vars, right_aux_vars, trans_activator,
                    trace_activators, slv, cexes, stack, ret, gen, result,
                    fin, fout >>

\* propagate that leaves the arrow at level i and stores it at level i + 1
\* as well
PropagateKeepStored ==
    /\ pc = "propagate"
    /\ prop.i < depth /\ prop.k <= Len(prop.arrows)
    /\ is_sat(consecution_solver,
              PathAssumptions(prop.i, PropArrow[1], PropArrow[2]))
    /\ consecution_solver' =
          solved(consecution_solver,
                 PathAssumptions(prop.i, PropArrow[1], PropArrow[2]),
                 "sat", {})
    /\ trace_blocked_arrows' =
          block_arrow_at(trace_blocked_arrows, PropArrow[1], PropArrow[2],
                         prop.i + 1, prop.i + 1)
    /\ prop' = [prop EXCEPT !.k = @ + 1]
    /\ UNCHANGED << sys, pc, store_next_id, middle_state_vars,
                    right_input_vars, right_aux_vars, trans_activator,
                    trace_activators, error_solver, slv, cexes, stack, ret,
                    gen, result, fin, fout >>

\* propagate: the arrow stays at level i
PropagateKeep ==
    /\ pc = "propagate"
    /\ prop.i < depth /\ prop.k <= Len(prop.arrows)
    /\ is_sat(consecution_solver,
              PathAssumptions(prop.i, PropArrow[1], PropArrow[2]))
    /\ consecution_solver' =
          solved(consecution_solver,
                 PathAssumptions(prop.i, PropArrow[1], PropArrow[2]),
                 "sat", {})
    /\ prop' = [prop EXCEPT !.k = @ + 1]
    /\ UNCHANGED << sys, pc, store_next_id, middle_state_vars,
                    right_input_vars, right_aux_vars, trans_activator,
                    trace_activators, trace_blocked_arrows, error_solver, slv,
                    cexes, stack, ret, gen, result, fin, fout >>

\* propagate: level i is empty after its arrows were tried, the system is
\* safe and run returns nothing
PropagateLevelEmpty ==
    /\ pc = "propagate"
    /\ prop.i < depth /\ prop.k > Len(prop.arrows)
    /\ trace_blocked_arrows[prop.i + 1] = << >>
    /\ result' = [kind |-> "safe", rows |-> << >>]
    /\ pc' = "done"
    /\ UNCHANGED << sys, store_next_id, middle_state_vars, right_input_vars,
                    right_aux_vars, trans_activator, trace_activators,
                    trace_blocked_arrows, error_solver, consecution_solver,
                    slv, cexes, stack, ret, gen, prop, fin, fout >>

\* propagate: on to level i + 1, with a copy of its arrows
PropagateLevelNext ==
    /\ pc = "propagate"
    /\ prop.i < depth /\ prop.k > Len(prop.arrows)
    /\ trace_blocked_arrows[prop.i + 1] # << >>
    /\ prop' = [i |-> prop.i + 1,
                arrows |-> IF prop.i + 1 < depth
                           THEN trace_blocked_arrows[prop.i + 2] ELSE << >>,
                k |-> 1]
    /\ UNCHANGED << sys, pc, store_next_id, middle_state_vars,
                    right_input_vars, right_aux_vars, trans_activator,
                    trace_activators, trace_blocked_arrows, error_solver,
                    consecution_solver, slv, cexes, stack, ret, gen, result,
                    fin, fout >>

\* propagate returns false; check() clears the pool and loops
PropagateReturn ==
    /\ pc = "propagate"
    /\ prop.i >= depth
    /\ prop' = NoProp
    /\ cexes' = << >>
    /\ pc' = "loop"
    /\ UNCHANGED << sys, store_next_id, middle_state_vars, right_input_vars,
                    right_aux_vars, trans_activator, trace_activators,
                    trace_blocked_arrows, error_solver, consecution_solver,
                    slv, stack, ret, gen, result, fin, fout >>

(***************************************************************************)
(* A run of the verifier.  Next holds the steps a run takes.  The handlers *)
(* of Deeper are part of the program but are enabled in no state a run     *)
(* reaches: get_model hands back the complement of the model, so the arrow *)
(* blocked for a model of the error query never excludes that model, the   *)
(* error query at depth 1 stays SAT unless the error is unsatisfiable, and *)
(* no obligation is ever solved above level 1 nor an arrow propagated.     *)
(* ProgramSpec, which takes them too, reaches the same states as Spec.     *)
(***************************************************************************)
Next ==
    \/ Initialize
    \/ CheckInitErrorSat
    \/ CheckInitErrorUnsat
    \/ CheckStepErrorSat
    \/ CheckStepErrorUnsat
    \/ GetErrorCexSat
    \/ GetErrorCexUnsat
    \/ SolveConcreteEdge
    \/ SolveNoEdge
    \/ SplitPathLevelOne
    \/ SplitUnsat
    \/ ClosureStep
    \/ BlockGeneralized
    \/ BuildCounterexample
    \/ ClearCexes
    \/ PropagateLevelEmpty

Deeper ==
    \/ SolveEqual
    \/ SplitObligation
    \/ ResumeLeftTrue
    \/ ResumeRightTrue
    \/ ResumeChildFalse
    \/ PropagatePush
    \/ PropagateKeep
    \/ PropagateLevelNext
    \/ PropagateReturn

Spec == Init /\ [][Next]_vars

ProgramSpec == Init /\ [][Next \/ Deeper]_vars

\* run() is one thread: a step that can be taken is taken
FairSpec == Spec /\ WF_vars(Next)

(***************************************************************************)
(* The leaf step of build_counterexample on its own: the row made of the   *)
(* input cube of one node, for every cube over MaxUnitInputs inputs that   *)
(* names each variable at most once.                                       *)
(***************************************************************************)
UnitInputs == Range(1, MaxUnitInputs)

\* the cube with the literals f[v] * v, f[v] in {-1, 0, 1}; 0 leaves v out
CubeOf(f) ==
    SelectSeq([k \in 1..MaxUnitInputs |-> f[k] * k], LAMBDA l : l # 0)

PartialCubes == {CubeOf(f) : f \in [1..MaxUnitInputs -> {-1, 0, 1}]}

RowInit ==
    /\ Constructed(1)
    /\ pc = "unit"
    /\ fin \in PartialCubes
    /\ fout = << >>

RowStep ==
    /\ pc = "unit"
    /\ fout' = row_of(UnitInputs, fin)
    /\ pc' = "unit_done"
    /\ UNCHANGED << sys, store_next_id, middle_state_vars, right_input_vars,
                    right_aux_vars, trans_activator, trace_activators,
                    trace_blocked_arrows, error_solver, consecution_solver,
                    slv, cexes, stack, ret, gen, prop, result, fin >>

RowSpec == RowInit /\ [][RowStep]_vars

(***************************************************************************)
(* What the specification says of a witness, in terms of the system alone. *)
(***************************************************************************)
\* the inputs a row sets to true
RowInputs(row) == {Var(row[k]) : k \in {j \in 1..Len(row) : Positive(row[j])}}

\* one literal per input variable, in the order of input_vars
WellFormedRow(row) ==
    /\ Len(row) = Size(input_vars(S0))
    /\ \A k \in 1..Len(row) : Var(row[k]) = Nth(input_vars(S0), k - 1)

InitStates == {x \in AllStates(S0) : InitHolds(S0, x)}

StepUnder(x, row) == NextTab[sys][<< x, RowInputs(row) >>]

ErrorUnder(x, row) == << x, RowInputs(row) >> \in ErrorTab[sys]

\* the states the system is in after the transitions of rows[1..k]
RECURSIVE StatesAfter(_, _)
StatesAfter(rows, k) ==
    IF k = 0 THEN InitStates
    ELSE {StepUnder(x, rows[k]) : x \in StatesAfter(rows, k - 1)}

\* x0 is initial, each row but the last is a transition, the last row is
\* the inputs under which the last state is an error
Replays(rows) ==
    /\ Len(rows) >= 1
    /\ \A k \in 1..Len(rows) : WellFormedRow(rows[k])
    /\ \E x \in StatesAfter(rows, Len(rows) - 1) :
          ErrorUnder(x, rows[Len(rows)])

\* the states reachable from X in at most n transitions
RECURSIVE ReachIn(_, _)
ReachIn(X, n) ==
    LET more == X \cup {NextTab[sys][<< x, y >>] : x \in X, y \in AllInputs(S0)}
    IN  IF n = 0 \/ more = X THEN X ELSE ReachIn(more, n - 1)

HasError(X) == \E x \in X, y \in AllInputs(S0) : << x, y >> \in ErrorTab[sys]

\* an error state is reachable in at most n transitions
CexWithin(n) == HasError(ReachIn(InitStates, n))

ErrorReachable == CexWithin(Cardinality(AllStates(S0)))

\* how run() came to its result
InitCaseReturned ==
    pc = "done" /\ slv.status = "sat"
        /\ slv.formulas = InitErrorSolver.formulas
StepCaseReturned ==
    pc = "done" /\ slv.status = "sat"
        /\ slv.formulas = StepErrorSolver.formulas
MainLoopReturned == pc = "done" /\ result.kind = "cex" /\ depth >= 1

\* C1: a witness run() returns replays on the system: the first state is
\* initial, every row but the last is a transition and the last state is an
\* error under the last row.
C1_WitnessReplays == (pc = "done" /\ result.kind = "cex") => Replays(result.rows)

\* C2: when run() answers Safe, no error state is reachable from an initial
\* state.
C2_SafeIsSafe == (pc = "done" /\ result.kind = "safe") => ~ErrorReachable

C2_SafeReturned == pc = "done" /\ result.kind = "safe" /\ depth = 2

\* a bound of the model stops the run here
BoundReached ==
    \/ pc = "loop" /\ depth >= MaxDepth
    \/ /\ pc = "solve" /\ stack # << >> /\ Top.pc = "closure"
       /\ (Len(gen.c) >= MaxPushBack \/ Len(gen.d) >= MaxPushBack)

\* C3: run() terminates on every finite system: every run returns (or
\* leaves the bounds of the model).
C3_RunTerminates == <>(pc = "done" \/ BoundReached)

\* some initial state has a successor that is an error under some inputs
OneStepCex ==
    \E x \in InitStates, y1, y2 \in AllInputs(S0) :
        << NextTab[sys][<< x, y1 >>], y2 >> \in ErrorTab[sys]

\* C4: with Init /\ Error unsatisfiable, check_trivial_cases returns a
\* two-row witness exactly when Init(x), T(x, y1, x2), Error(x2, y2) has a
\* solution, and the rows are y1 and y2 over input_vars.
C4_StepCaseExact ==
    /\ depth >= 1 => ~OneStepCex
    /\ StepCaseReturned =>
          /\ Len(result.rows) = 2
          /\ WellFormedRow(result.rows[1]) /\ WellFormedRow(result.rows[2])
          /\ \E x \in InitStates :
                ErrorUnder(StepUnder(x, result.rows[1]), result.rows[2])

\* C5: with Init /\ Error satisfiable, run() returns exactly one row, the
\* input assignment of a model of Init /\ Error, pushes no frame 1 and asks
\* the persistent solvers nothing.
C5_InitCaseRow ==
    InitCaseReturned =>
        /\ Len(result.rows) = 1
        /\ WellFormedRow(result.rows[1])
        /\ \E x \in InitStates : ErrorUnder(x, result.rows[1])
        /\ depth = 0
        /\ error_solver.status = "none"
        /\ consecution_solver.status = "none"

\* C6: get_model returns one literal per variable of the range, in range
\* order, positive iff the variable is true in the model; so the two input
\* tests get the rows [i] and [!i].
C6_GetModelPolarity ==
    /\ slv.status = "sat" =>
          LET m == get_model(input_vars(S0), slv.model)
          IN  /\ Len(m) = Size(input_vars(S0))
              /\ \A k \in 1..Len(m) :
                    /\ Var(m[k]) = Nth(input_vars(S0), k - 1)
                    /\ Positive(m[k]) <=> (Var(m[k]) \in slv.model)
    /\ (pc = "done" /\ S0 = InputTrue) => result.rows = << << 1 >> >>
    /\ (pc = "done" /\ S0 = InputFalse) => result.rows = << << -1 >> >>

\* C7: a witness of the main loop found at depth d has at least 3 and at
\* most 2^d + 1 rows; no frame is pushed while a counterexample of at most
\* 2^depth transitions exists; the 4-bit counter gets exactly 16 rows.
C7_MainLoopRows ==
    /\ MainLoopReturned =>
          Len(result.rows) >= 3 /\ Len(result.rows) <= 2 ^ depth + 1
    /\ depth >= 1 => ~CexWithin(2 ^ (depth - 1))
    /\ (pc = "done" /\ S0 = Counter4) => Len(result.rows) = 16

\* the rows of the subtree of a node, left to right
RECURSIVE SubtreeRows(_, _)
SubtreeRows(pool, handle) ==
    IF handle = {} THEN << >>
    ELSE LET n == cex_get(pool, CHOOSE h \in handle : TRUE)
         IN  SubtreeRows(pool, n.left) \o SubtreeRows(pool, n.right) \o
             (IF n.input_vars = {} THEN << >>
              ELSE << CHOOSE c \in n.input_vars : TRUE >>)

\* C8: build_counterexample gives the rows of the left subtree, then those
\* of the right subtree, then the row of the node; the rows before the last
\* are the inputs of the transitions in order from the initial state, and
\* the last row is the inputs get_error_cex gave the root, under which the
\* last state is an error.
C8_CexOrder ==
    MainLoopReturned =>
        LET root == cex_get(cexes, 0)
            n == Len(result.rows)
        IN  /\ result.rows =
                  SubtreeRows(cexes, root.left) \o SubtreeRows(cexes, root.right)
                      \o << result.rows[n] >>
            /\ result.rows[n] = get_model(input_vars(S0), error_solver.model)
            /\ \E x \in StatesAfter(result.rows, n - 1) :
                  ErrorUnder(x, result.rows[n])

\* C9: every row of every witness has exactly one literal per input
\* variable, in the order of input_vars, over input_vars only (none over
\* the second copy Y2).
C9_RowsOverInputs ==
    (pc = "done" /\ result.kind = "cex") =>
        \A k \in 1..Len(result.rows) : WellFormedRow(result.rows[k])

C9_TwoRowsWithInputs ==
    /\ StepCaseReturned
    /\ Size(input_vars(S0)) >= 1
    /\ Len(result.rows) = 2

\* C10: the row build_counterexample makes of a node holds, for each input
\* variable, the literal found in the node's input cube, and the negative
\* literal when the variable is not in the cube.
C10_LeafRow ==
    pc = "unit_done" =>
        /\ Len(fout) = MaxUnitInputs
        /\ \A k \in 1..MaxUnitInputs :
              fout[k] = IF k \in SeqToSet(fin) THEN k ELSE -k

C10_CubeWithGap ==
    /\ pc = "unit_done"
    /\ \E k \in 1..MaxUnitInputs : k \in SeqToSet(fin)
    /\ \E k \in 1..MaxUnitInputs : -k \in SeqToSet(fin)
    /\ \E k \in 1..MaxUnitInputs :
          k \notin SeqToSet(fin) /\ -k \notin SeqToSet(fin)

(***************************************************************************)
(* The choices of a run.                                                   *)
(***************************************************************************)
\* the run stands at the head of the closure loop of
\* generalize_blocked_arrow
AtClosure == pc = "solve" /\ stack # << >> /\ Top.pc = "closure"

\* the models the query of the closure loop can answer with
ClosureModels ==
    Models(consecution_solver, EdgeAssumptions(gen.c, gen.d),
           RangeVars(state_vars(S0)) \cup RangeVars(next_state_vars(S0)))

\* c_conflict and d_conflict of the closure loop under the model M
c_conflict_of(M) ==
    find_conflict_sorted(get_s(Top), get_model(state_vars(S0), M))

d_conflict_of(M) ==
    find_conflict_sorted(get_t(Top),
                         unprime(get_model(next_state_vars(S0), M)))

verifier_vars ==
    << sys, store_next_id, middle_state_vars, right_input_vars,
       right_aux_vars, trans_activator, trace_activators,
       trace_blocked_arrows, error_solver, consecution_solver, slv, cexes,
       stack, ret, gen, prop, result >>

\* the answers of CaDiCaL::Solver::solve
SolveResults == {"SATISFIABLE", "UNSATISFIABLE", "UNKNOWN"}

\* query_builder::is_sat on the answer res of solve(): with assertions
\* compiled in, an UNKNOWN answer stops the program; with NDEBUG the
\* assert is no statement and the comparison decides
query_is_sat(res, ndebug) ==
    IF ~ndebug /\ res = "UNKNOWN" THEN "abort"
    ELSE IF res = "SATISFIABLE" THEN "true" ELSE "false"

\* a query: the literals assumed, the answer of the solver, the build
QueryInit ==
    /\ Constructed(1)
    /\ pc = "query"
    /\ fin \in [assumed : PartialCubes, res : SolveResults,
                ndebug : BOOLEAN]
    /\ fout = << >>

QueryStep ==
    /\ pc = "query"
    /\ fout' = query_is_sat(fin.res, fin.ndebug)
    /\ pc' = "query_done"
    /\ UNCHANGED << verifier_vars, fin >>

QuerySpec == QueryInit /\ [][QueryStep]_vars

\* C12: when the solver answers UNKNOWN the run aborts; is_sat gives its
\* caller neither true (SAT) nor false (UNSAT) for such an answer.
C12_UnknownAborts ==
    (pc = "query_done" /\ fin.res = "UNKNOWN") => fout = "abort"

(***************************************************************************)
(* build_from_aiger as main calls it: the counts of the AIG header decide  *)
(* whether a transition system is built.                                   *)
(***************************************************************************)
MaxAigOutputs == 2
MaxAigProperties == 1

AigHeaders ==
    [num_outputs : 0..MaxAigOutputs, num_bad : 0..MaxAigOutputs,
     num_fairness : 0..MaxAigProperties, num_justice : 0..MaxAigProperties,
     num_constraints : 0..MaxAigProperties]

\* make_aiger_info accepting any AIG with at least one output or bad
\* literal: the check C13 is shown to depend on
make_aiger_info_some_output(aig) ==
    IF aig.num_outputs + aig.num_bad = 0 THEN "unexpected"
    ELSE IF aig.num_fairness > 0 \/ aig.num_justice > 0
                \/ aig.num_constraints > 0
         THEN "unexpected"
         ELSE "aiger_info"

make_aiger_info(aig) ==
    IF aig.num_outputs + aig.num_bad # 1 THEN "unexpected"
    ELSE IF aig.num_fairness > 0 \/ aig.num_justice > 0
                \/ aig.num_constraints > 0
         THEN "unexpected"
         ELSE "aiger_info"

\* std::expected::transform: the system is built from a value only
build_from_aiger(aig) ==
    IF make_aiger_info(aig) = "aiger_info"
    THEN [has_value |-> TRUE, built |-> 1]
    ELSE [has_value |-> FALSE, built |-> 0]

BuildInit ==
    /\ Constructed(1)
    /\ pc = "main"
    /\ fin \in AigHeaders
    /\ fout = << >>

\* main: auto system = builder::build_from_aiger( store, *aig )
MainBuild ==
    /\ pc = "main"
    /\ fout' = build_from_aiger(fin)
    /\ pc' = "main_built"
    /\ UNCHANGED << verifier_vars, fin >>

\* main: if ( !system.has_value() ) return 1
MainError ==
    /\ pc = "main_built"
    /\ ~fout.has_value
    /\ pc' = "main_return_1"
    /\ UNCHANGED << verifier_vars, fin, fout >>

\* main: verifier{ store, *system, seed }.run()
MainRun ==
    /\ pc = "main_built"
    /\ fout.has_value
    /\ pc' = "main_run"
    /\ UNCHANGED << verifier_vars, fin, fout >>

BuildSpec == BuildInit /\ [][MainBuild \/ MainError \/ MainRun]_vars

\* the AIG has exactly one output-or-bad literal and no fairness, justice
\* or invariant constraint
SupportedAig(aig) ==
    /\ aig.num_outputs + aig.num_bad = 1
    /\ aig.num_fairness = 0 /\ aig.num_justice = 0
    /\ aig.num_constraints = 0

\* C13: build_from_aiger gives an error and builds no system unless the AIG
\* has exactly one output-or-bad literal and no fairness, justice or
\* invariant constraint; the verifier runs only on a system that was built.
C13_BuilderRejects ==
    /\ pc \in {"main_built", "main_return_1", "main_run"} =>
          /\ fout.has_value <=> SupportedAig(fin)
          /\ ~fout.has_value => fout.built = 0
    /\ pc = "main_run" => fout.has_value /\ fout.built = 1 /\ SupportedAig(fin)
    /\ pc = "main_return_1" => ~SupportedAig(fin)

\* main has returned 1 for an AIG with two bad literals and for nothing else
\* wrong with it
C13_TwoBadRejected ==
    /\ pc = "main_return_1"
    /\ fin.num_bad = 2 /\ fin.num_outputs = 0
    /\ fin.num_fairness = 0 /\ fin.num_justice = 0 /\ fin.num_constraints = 0

(***************************************************************************)
(* build_from_context and make_context on the latches of an AIG.  A latch  *)
(* is its reset ("0", "1", or "self" for a latch that is not initialised,  *)
(* whose reset is its own literal) and whether it influences the error     *)
(* (influences_error: not decided and in the cone of the error).           *)
(***************************************************************************)
MaxLatches == 3

AigLatches ==
    UNION {[1..n -> [reset : {"0", "1", "self"}, influences_error : BOOLEAN]]
              : n \in 0..MaxLatches}

\* aiger_is_constant( reset )
aiger_is_constant(reset) == reset \in {"0", "1"}

\* build_from_context: the loop that fills initial_cube
RECURSIVE initial_cube_of(_)
initial_cube_of(latches) ==
    IF latches = << >> THEN << >>
    ELSE LET rest == initial_cube_of(SubSeq(latches, 1, Len(latches) - 1))
             reset == latches[Len(latches)].reset
         IN  IF aiger_is_constant(reset)
             THEN Append(rest, reset = "1")
             ELSE rest

\* make_context: num_state_vars
num_state_vars_of(latches) ==
    Cardinality({i \in 1..Len(latches) : latches[i].influences_error})

LatchInit ==
    /\ Constructed(1)
    /\ pc = "context"
    /\ fin \in AigLatches
    /\ fout = << >>

LatchStep ==
    /\ pc = "context"
    /\ fout' = [initial_cube |-> initial_cube_of(fin),
                state_vars_size |-> num_state_vars_of(fin)]
    /\ pc' = "context_done"
    /\ UNCHANGED << verifier_vars, fin >>

LatchSpec == LatchInit /\ [][LatchStep]_vars

\* C14: initial_cube has exactly one entry per latch of the AIG, in the
\* order of the latches (entry i is the reset value of latch i), whichever
\* latches are left out of state_vars.
C14_InitialCubePerLatch ==
    pc = "context_done" =>
        /\ Len(fout.initial_cube) = Len(fin)
        /\ \A i \in 1..Len(fin) :
              fin[i].reset # "self" =>
                  fout.initial_cube[i] = (fin[i].reset = "1")

(***************************************************************************)
(* cnf_formula as the class stores it: the literals of the clauses in      *)
(* order, each clause followed by literal::separator (0).                  *)
(***************************************************************************)
separator == 0

cnf_add_clause(f, c) == (f \o c) \o << separator >>

cnf_constant(value) ==
    IF value THEN << >> ELSE cnf_add_clause(<< >>, << >>)

\* the clauses of a formula, in order
RECURSIVE cnf_clauses(_, _)
cnf_clauses(f, open) ==
    IF f = << >> THEN << >>
    ELSE IF Head(f) = separator
         THEN << open >> \o cnf_clauses(Tail(f), << >>)
         ELSE cnf_clauses(Tail(f), Append(open, Head(f)))

\* the assignment A (the set of true variables) satisfies the formula
cnf_holds(f, A) ==
    LET cs == cnf_clauses(f, << >>)
    IN  \A k \in 1..Len(cs) :
            \E j \in 1..Len(cs[k]) :
                Positive(cs[k][j]) = (Var(cs[k][j]) \in A)

(***************************************************************************)
(* build_trans on a context without AND gates: ni inputs, n latches kept   *)
(* in state_vars, next[i] the next-state literal of latch i.               *)
(***************************************************************************)
MaxTransInputs == 2
MaxTransLatches == 2

TransContexts ==
    UNION {[ni : {i}, n : {n},
            next : [1..n -> {MkLiteral(v, b) :
                                v \in 1..(i + n), b \in BOOLEAN}]]
              : i \in 0..MaxTransInputs, n \in 0..MaxTransLatches}

\* builder::build_trans
build_trans(ctx) == cnf_constant(FALSE)

TransInit ==
    /\ Constructed(1)
    /\ pc = "build_trans"
    /\ fin \in TransContexts
    /\ fout = << >>

TransStep ==
    /\ pc = "build_trans"
    /\ fout' = build_trans(fin)
    /\ pc' = "build_trans_done"
    /\ UNCHANGED << verifier_vars, fin >>

TransSpec == TransInit /\ [][TransStep]_vars

\* state variable i and next-state variable i of a context: the ranges
\* follow the inputs, as make_context hands them out
ctx_state_var(ctx, i) == ctx.ni + i
ctx_next_state_var(ctx, i) == ctx.ni + ctx.n + i

\* C15: trans makes, for every latch kept, the next-state variable x'
\* equivalent to the latch's next-state literal; it is (-x' or x) and
\* (-x or x') for one latch that keeps its value, and the formula without
\* clauses when no latch is kept.
C15_TransIsNextState ==
    pc = "build_trans_done" =>
        /\ \A A \in SUBSET (1..(fin.ni + 2 * fin.n)) :
              cnf_holds(fout, A) <=>
                  \A i \in 1..fin.n :
                      (ctx_next_state_var(fin, i) \in A) =
                          (Positive(fin.next[i]) = (Var(fin.next[i]) \in A))
        /\ fin.n = 0 => fout = << >>
        /\ (fin.n = 1 /\ fin.next[1] = ctx_state_var(fin, 1)) =>
              LET x == ctx_state_var(fin, 1)
                  xp == ctx_next_state_var(fin, 1)
              IN  fout = << -xp, x, separator, -x, xp, separator >>

(***************************************************************************)
(* from_aiger_lit on a reencoded AIG with ni inputs, nl latches (all kept  *)
(* in state_vars) and na AND gates: the AIGER variables are numbered       *)
(* inputs first, then latches, then gates, and an AIGER literal is twice   *)
(* its variable, plus one when negated.  The function has two revisions    *)
(* in the sources, the one of aiger_builder.cpp and the inline one of      *)
(* aiger_builder.hpp.                                                      *)
(***************************************************************************)
MaxAigVars == 2

aiger_strip(lit) == lit - (lit % 2)
aiger_sign(lit) == lit % 2

\* make_context: the four ranges, made in this order from a fresh store
ctx_input_vars(aig) == Range(1, aig.ni)
ctx_state_vars(aig) == Range(1 + aig.ni, aig.nl)
ctx_and_vars(aig) == Range(1 + aig.ni + 2 * aig.nl, aig.na)

\* the lambda from_aiger_var
from_aiger_var(aig, var) ==
    LET index == var \div 2
    IN  IF index <= aig.ni
        THEN Nth(ctx_input_vars(aig), index - 1)
        ELSE IF index <= aig.ni + aig.nl
             THEN Nth(ctx_state_vars(aig), index - aig.ni - 1)
             ELSE Nth(ctx_and_vars(aig), index - aig.ni - aig.nl - 1)

\* from_aiger_lit of aiger_builder.hpp (inline)
from_aiger_lit_inline(aig, lit) ==
    MkLiteral(from_aiger_var(aig, aiger_strip(lit)), aiger_sign(lit) = 0)

\* from_aiger_lit of aiger_builder.cpp
from_aiger_lit(aig, lit) ==
    MkLiteral(from_aiger_var(aig, aiger_strip(lit)), aiger_sign(lit) = 1)

AigLiterals ==
    UNION {[ni : {i}, nl : {l}, na : {a},
            lit : 2..(2 * (i + l + a) + 1), inline : BOOLEAN]
              : i \in 0..MaxAigVars, l \in 0..MaxAigVars,
                a \in 0..MaxAigVars}

LitInit ==
    /\ Constructed(1)
    /\ pc = "from_aiger_lit"
    /\ fin \in AigLiterals
    /\ fout = << >>

LitStep ==
    /\ pc = "from_aiger_lit"
    /\ fout' = IF fin.inline THEN from_aiger_lit_inline(fin, fin.lit)
               ELSE from_aiger_lit(fin, fin.lit)
    /\ pc' = "from_aiger_lit_done"
    /\ UNCHANGED << verifier_vars, fin >>

LitSpec == LitInit /\ [][LitStep]_vars

\* C16: from_aiger_lit gives the positive literal of the variable for an
\* even AIGER literal and the negative literal of the same variable for
\* an odd one.
C16_AigerLitPolarity ==
    pc = "from_aiger_lit_done" =>
        /\ Var(fout) = from_aiger_var(fin, aiger_strip(fin.lit))
        /\ Positive(fout) = (fin.lit % 2 = 0)

(***************************************************************************)
(* cnf_formula::activate on every formula of at most MaxCnfLen entries     *)
(* over MaxCnfVars variables; the activator is the next variable.          *)
(***************************************************************************)
MaxCnfLen == 4
MaxCnfVars == 2

\* activate adding the activator itself instead of its negation: the step
\* C17 is shown to depend on
RECURSIVE cnf_activate_positive(_, _)
cnf_activate_positive(f, activator) ==
    IF f = << >> THEN << >>
    ELSE (IF Head(f) = separator
          THEN << MkLiteral(activator, TRUE), Head(f) >>
          ELSE << Head(f) >>) \o cnf_activate_positive(Tail(f), activator)

\* cnf_formula::activate
RECURSIVE cnf_activate(_, _)
cnf_activate(f, activator) ==
    IF f = << >> THEN << >>
    ELSE (IF Head(f) = separator
          THEN << -MkLiteral(activator, TRUE), Head(f) >>
          ELSE << Head(f) >>) \o cnf_activate(Tail(f), activator)

\* the formulas: every clause ends with a separator
CnfFormulas ==
    {f \in UNION {[1..n -> (-MaxCnfVars)..MaxCnfVars] : n \in 0..MaxCnfLen} :
        f = << >> \/ f[Len(f)] = separator}

ActivateInit ==
    /\ Constructed(1)
    /\ pc = "activate"
    /\ fin \in CnfFormulas
    /\ fout = << >>

ActivateStep ==
    /\ pc = "activate"
    /\ fout' = cnf_activate(fin, MaxCnfVars + 1)
    /\ pc' = "activate_done"
    /\ UNCHANGED << verifier_vars, fin >>

ActivateSpec == ActivateInit /\ [][ActivateStep]_vars

\* the number of separators of a formula
Separators(f) == Cardinality({k \in 1..Len(f) : f[k] = separator})

\* C17: activate(a) keeps the number of separators and turns every clause
\* C, the empty one too, into C followed by the negative literal of a; the
\* formula without clauses stays without clauses.
C17_Activate ==
    pc = "activate_done" =>
        LET before == cnf_clauses(fin, << >>)
            after == cnf_clauses(fout, << >>)
        IN  /\ Separators(fout) = Separators(fin)
            /\ Len(after) = Len(before)
            /\ \A k \in 1..Len(before) :
                  after[k] = Append(before[k], -(MaxCnfVars + 1))
            /\ fin = << >> => fout = << >>

\* a formula with an empty clause and a unit clause has been activated
C17_EmptyClauseActivated ==
    /\ pc = "activate_done"
    /\ fin = << separator, 1, separator >>
    /\ fout = << -(MaxCnfVars + 1), separator,
                 1, -(MaxCnfVars + 1), separator >>

(***************************************************************************)
(* The constructor of cube and cube::subsumes on every three lists of at   *)
(* most MaxCubeLen literals over MaxCubeVars variables.                    *)
(***************************************************************************)
MaxCubeLen == 2
MaxCubeVars == 2

CubeLiterals == {MkLiteral(v, b) : v \in 1..MaxCubeVars, b \in BOOLEAN}

LiteralLists == UNION {[1..n -> CubeLiterals] : n \in 0..MaxCubeLen}

\* cube::cube( std::vector< literal > ): std::ranges::sort
cube_ctor(literals) == sort_literals(literals)

CubeInit ==
    /\ Constructed(1)
    /\ pc = "cube"
    /\ fin \in [c : LiteralLists, d : LiteralLists, e : LiteralLists]
    /\ fout = << >>

\* the three cubes are built and compared
CubeStep ==
    /\ pc = "cube"
    /\ fout' = LET c == cube_ctor(fin.c)
                   d == cube_ctor(fin.d)
                   e == cube_ctor(fin.e)
               IN  [c |-> c, d |-> d, e |-> e,
                    cc |-> subsumes(c, c), cd |-> subsumes(c, d),
                    de |-> subsumes(d, e), ce |-> subsumes(c, e),
                    empty_c |-> subsumes(cube_ctor(<< >>), c)]
    /\ pc' = "cube_done"
    /\ UNCHANGED << verifier_vars, fin >>

CubeSpec == CubeInit /\ [][CubeStep]_vars

\* C18: a cube built from any list of literals holds them sorted by
\* variable, negative before positive; c.subsumes(d) is true exactly when
\* every literal of c occurs in d; subsumes is reflexive and transitive,
\* and the empty cube subsumes every cube.
C18_CubeSubsumes ==
    pc = "cube_done" =>
        /\ is_sorted(fout.c) /\ SeqToSet(fout.c) = SeqToSet(fin.c)
        /\ Len(fout.c) = Len(fin.c)
        /\ fout.cd <=> SeqToSet(fin.c) \subseteq SeqToSet(fin.d)
        /\ fout.cc
        /\ (fout.cd /\ fout.de) => fout.ce
        /\ fout.empty_c

(***************************************************************************)
(* prime, unprime, circle and uncircle of a constructed verifier on every  *)
(* list of at most MaxShiftLen literals over the variables of the store.   *)
(***************************************************************************)
MaxShiftLen == 2
MaxShiftAux == 4

\* the systems small enough to list the literals of
ShiftSystems == {i \in SysIds : Systems[i].na <= MaxShiftAux}

StoreLiterals ==
    {MkLiteral(v, b) : v \in 1..(store_next_id - 1), b \in BOOLEAN}

ShiftInit ==
    /\ \E i \in ShiftSystems : Constructed(i)
    /\ pc = "shift"
    /\ fin \in UNION {[1..n -> StoreLiterals] : n \in 0..MaxShiftLen}
    /\ fout = << >>

ShiftStep ==
    /\ pc = "shift"
    /\ fout' = [primed |-> prime(fin), unprimed |-> unprime(fin),
                circled |-> circle(fin), uncircled |-> uncircle(fin),
                unprime_prime |-> unprime(prime(fin)),
                uncircle_circle |-> uncircle(circle(fin))]
    /\ pc' = "shift_done"
    /\ UNCHANGED << verifier_vars, fin >>

ShiftSpec == ShiftInit /\ [][ShiftStep]_vars

\* the literals of a list over a range, in order
Over(range, literals) ==
    SelectSeq(literals, LAMBDA l : Contains(range, Var(l)))

\* shifted is source moved from one range to the other: same length, same
\* polarities, same offsets
Moved(from, to, source, shifted) ==
    /\ Len(shifted) = Len(source)
    /\ \A k \in 1..Len(source) :
          /\ Positive(shifted[k]) = Positive(source[k])
          /\ Contains(to, Var(shifted[k]))
          /\ Offset(to, Var(shifted[k])) = Offset(from, Var(source[k]))

\* C19: unprime(prime(lit)) = lit and uncircle(circle(lit)) = lit for every
\* literal over a state variable; prime, unprime, circle and uncircle keep
\* polarity and offset, and on a list they drop the literals outside the
\* range they shift from.
C19_ShiftRoundTrip ==
    pc = "shift_done" =>
        LET X == state_vars(S0)
            Xp == next_state_vars(S0)
            Xc == middle_state_vars
        IN  /\ fout.unprime_prime = Over(X, fin)
            /\ fout.uncircle_circle = Over(X, fin)
            /\ Moved(X, Xp, Over(X, fin), fout.primed)
            /\ Moved(X, Xc, Over(X, fin), fout.circled)
            /\ Moved(Xp, X, Over(Xp, fin), fout.unprimed)
            /\ Moved(Xc, X, Over(Xc, fin), fout.uncircled)

\* a negative state literal and a literal outside the state variables have
\* been primed: one literal is left, negative
C19_NegativePrimed ==
    /\ pc = "shift_done"
    /\ Len(fin) = 2 /\ Len(fout.primed) = 1
    /\ ~Positive(fout.primed[1])
    /\ fout.unprime_prime = << fin[1] >>

(***************************************************************************)
(* The frames against the concrete transition relation.                    *)
(***************************************************************************)
\* the state x (the set of its true variables) lies in the cube
InCube(x, c) == \A k \in 1..Len(c) : Positive(c[k]) = (Var(c[k]) \in x)

\* some state of s reaches some state of t by at most n transitions
CubeReaches(s, t, n) ==
    \E x \in AllStates(S0) :
        /\ InCube(x, s)
        /\ \E z \in ReachIn({x}, n) : InCube(z, t)

\* C20: for every arrow (s, t) blocked at a level k >= 1, no state of s
\* reaches a state of t by at most 2^k transitions of T, none included
\* (s and t share no state).
C20_ArrowsSound ==
    \A k \in 1..depth :
        \A j \in 1..Len(trace_blocked_arrows[k + 1]) :
            ~CubeReaches(trace_blocked_arrows[k + 1][j][1],
                         trace_blocked_arrows[k + 1][j][2], 2 ^ k)
\* an arrow with literals on both sides stands blocked at level 1
C20_ArrowBlocked ==
    /\ depth >= 1
    /\ \E j \in 1..Len(trace_blocked_arrows[2]) :
          /\ trace_blocked_arrows[2][j][1] # << >>
          /\ trace_blocked_arrows[2][j][2] # << >>

(***************************************************************************)
(* solve_obligation against the concrete transition relation.              *)
(***************************************************************************)
\* a call of solve_obligation returns in this step
Returns == pc = "solve" /\ stack # << >> /\ stack' = Pop

\* the literals of c are literals of s
Subcube(c, s) == SeqToSet(c) \subseteq SeqToSet(s)

Last(q) == q[Len(q)]

\* C21: a call of solve_obligation at a level k >= 1 returns true exactly
\* when some state of t is reached from some state of s by at most 2^k
\* transitions of T, and when it returns false the last arrow of frame k is
\* an arrow (c, d) inserted by the call, c a subcube of s and d of t.
C21_SolveObligation ==
    [][Returns /\ Top.level >= 1 =>
          LET s == get_s(Top)
              t == get_t(Top)
              k == Top.level
          IN  /\ ret' \in {"true", "false"}
              /\ (ret' = "true") = CubeReaches(s, t, 2 ^ k)
              /\ ret' = "false" =>
                    /\ trace_blocked_arrows'[k + 1] # << >>
                    /\ Subcube(Last(trace_blocked_arrows'[k + 1])[1], s)
                    /\ Subcube(Last(trace_blocked_arrows'[k + 1])[2], t)]_vars
\* a root obligation of level 1 was refuted: its states are two or more
\* transitions apart and frame 1 holds the arrow made for it
C21_RootRefuted ==
    /\ pc = "solve" /\ stack = << >> /\ ret = "false"
    /\ cexes # << >>
    /\ ~CubeReaches(cexes[1].s_state_vars, cexes[1].t_state_vars, 2)
    /\ Subcube(Last(trace_blocked_arrows[2])[1], cexes[1].s_state_vars)
    /\ Last(trace_blocked_arrows[2])[1] # << >>

(***************************************************************************)
(* generalize_blocked_arrow.                                               *)
(***************************************************************************)
\* some variable occurs in c and in d in opposite polarities
Disjoint(c, d) ==
    \E x \in SeqToSet(c), y \in SeqToSet(d) : x = -y

\* C22: generalize_blocked_arrow( s, t, k ) returns sorted cubes c and d,
\* c of literals of s and d of literals of t, with a variable in opposite
\* polarities in c and d, with c /\ T /\ d' unsatisfiable and with
\* activators_from( k - 1 ) /\ c /\ d' unsatisfiable; and its assertions
\* hold in every call: s and t have a conflicting variable, c and d have no
\* common state after the cores were taken, every model of the query of the
\* closure loop has a conflict literal with s or with t, and the query of
\* the level stays unsatisfiable.
C22_Generalize ==
    /\ [](AtClosure =>
            /\ find_conflict_sorted(get_s(Top), get_t(Top)) # << >>
            /\ ~intersects_sorted(sort_literals(gen.c), sort_literals(gen.d))
            /\ Subcube(gen.c, get_s(Top)) /\ Subcube(gen.d, get_t(Top))
            /\ \A M \in ClosureModels :
                  c_conflict_of(M) # << >> \/ d_conflict_of(M) # << >>
            /\ ~is_sat(consecution_solver,
                       PathAssumptions(Top.level - 1, gen.c, gen.d)))
    /\ [][AtClosure /\ Returns =>
            LET c == Last(trace_blocked_arrows'[Top.level + 1])[1]
                d == Last(trace_blocked_arrows'[Top.level + 1])[2]
            IN  /\ c = sort_literals(gen.c) /\ d = sort_literals(gen.d)
                /\ is_sorted(c) /\ is_sorted(d)
                /\ Subcube(c, get_s(Top)) /\ Subcube(d, get_t(Top))
                /\ Disjoint(c, d)
                /\ ~is_sat(consecution_solver, EdgeAssumptions(c, d))
                /\ ~is_sat(consecution_solver,
                           PathAssumptions(Top.level - 1, c, d))]_vars
\* generalize_blocked_arrow is about to return three or more literals:
\* the query of the closure loop is unsatisfiable, which it is not without
\* the last literal of c or of d
C22_ClosureDone ==
    /\ AtClosure
    /\ ~is_sat(consecution_solver, EdgeAssumptions(gen.c, gen.d))
    /\ \/ /\ gen.c # << >>
          /\ is_sat(consecution_solver,
                    EdgeAssumptions(SubSeq(gen.c, 1, Len(gen.c) - 1), gen.d))
       \/ /\ gen.d # << >>
          /\ is_sat(consecution_solver,
                    EdgeAssumptions(gen.c, SubSeq(gen.d, 1, Len(gen.d) - 1)))
    /\ Len(gen.c) + Len(gen.d) >= 3

(***************************************************************************)
(* The clauses of the blocked arrows.                                      *)
(***************************************************************************)
\* the arrows of frame k, as pairs
ArrowsAt(k) == SeqToSet(trace_blocked_arrows[k + 1])

\* the clause not( a /\ b ) guarded by the negated activator of frame k
Guarded(a, b, k) == negate_activate(union_sorted(a, b), trace_activators[k + 1])

\* C23 as stated: for every arrow (s, t) blocked at a level k the
\* consecution solver holds the three clauses not(s /\ t'), not(s /\ t°)
\* and not(t' /\ s°), each guarded by the negated activator of frame k, and
\* the error solver holds not(s /\ t') with the same guard.
C23_ThreeClauses ==
    \A k \in 1..depth :
        \A a \in ArrowsAt(k) :
            /\ Guarded(a[1], prime(a[2]), k) \in consecution_solver.clauses
            /\ Guarded(a[1], circle(a[2]), k) \in consecution_solver.clauses
            /\ Guarded(prime(a[2]), circle(a[1]), k)
                   \in consecution_solver.clauses
            /\ Guarded(a[1], prime(a[2]), k) \in error_solver.clauses

\* C23, amended: for every arrow (s, t) blocked at a level k the consecution
\* solver holds the two clauses not(s /\ t°) and not(t' /\ s°), each
\* guarded by the negated activator of frame k, and the error solver holds
\* not(s /\ t') with the same guard; the clause not(s /\ t') is asserted
\* into the error solver only, the consecution solver never holds it.
C23_TwoClauses ==
    \A k \in 1..depth :
        \A a \in ArrowsAt(k) :
            /\ Guarded(a[1], circle(a[2]), k) \in consecution_solver.clauses
            /\ Guarded(prime(a[2]), circle(a[1]), k)
                   \in consecution_solver.clauses
            /\ Guarded(a[1], prime(a[2]), k) \in error_solver.clauses
            /\ Guarded(a[1], prime(a[2]), k) \notin consecution_solver.clauses
\* an arrow stands in frame 1 and the error solver holds its clause
C23_ArrowAsserted ==
    /\ depth >= 1
    /\ \E a \in ArrowsAt(1) :
          /\ a[1] # << >> /\ a[2] # << >>
          /\ Guarded(a[1], prime(a[2]), 1) \in error_solver.clauses
          /\ Cardinality(consecution_solver.clauses) >= 2

(***************************************************************************)
(* The verifier of the system with index i after initialize and as many    *)
(* calls of push_frame as leave it with n frames, all of them empty.       *)
(***************************************************************************)
Pushed(i, n) ==
    /\ sys = i
    /\ middle_state_vars = Range(BuilderNextId(S0), S0.ns)
    /\ right_input_vars = Range(BuilderNextId(S0) + S0.ns, S0.ni)
    /\ right_aux_vars = Range(BuilderNextId(S0) + S0.ns + S0.ni, S0.na)
    /\ trans_activator = BuilderNextId(S0) + S0.ns + S0.ni + S0.na
    /\ trace_activators = [k \in 1..n |-> trans_activator + k]
    /\ store_next_id = trans_activator + n + 1
    /\ trace_blocked_arrows = [k \in 1..n |-> << >>]
    /\ error_solver =
          assert_formula(assert_formula(EmptySolver, Formula("init", 0)),
                         Formula("next_state_error", 0))
    /\ consecution_solver =
          assert_formula(
              assert_formula(
                  assert_formula(EmptySolver,
                                 Formula("trans", trans_activator)),
                  Formula("left_trans", trace_activators[1])),
              Formula("right_trans", trace_activators[1]))
    /\ slv = EmptySolver
    /\ ret = "none"
    /\ gen = NoGen
    /\ prop = NoProp
    /\ result = NoResult
    /\ fin = << >>
    /\ fout = << >>

(***************************************************************************)
(* block_arrow_at on the frame stack of a verifier with the frames 0, 1    *)
(* and 2, called in any order with any arguments its assertions admit.     *)
(* The system is Toggle, whose state variables are x0 = 1 and x1 = 2; fin  *)
(* holds the arguments of the last call.                                   *)
(***************************************************************************)
MaxFrameArrows == 2  \* arrows a frame holds at most

ToggleId == CHOOSE i \in SysIds : Systems[i] = Toggle

\* the cubes of the arrows: s holds x0, t holds -x0, either may hold x1
FrameSources == {<< 1 >>, << 1, 2 >>}
FrameTargets == {<< -1 >>, << -1, 2 >>}

FrameInit ==
    /\ Pushed(ToggleId, 3)
    /\ cexes = << >>
    /\ stack = << >>
    /\ pc = "frames"

\* block_arrow_at that stores the arrow and asserts no clause for it
FrameBlockUnasserted ==
    /\ pc = "frames"
    /\ \E s \in FrameSources, t \in FrameTargets, level \in 1..depth :
          \E start_from \in 1..level :
              /\ Len(trace_blocked_arrows[level + 1]) < MaxFrameArrows
              /\ fin' = [s |-> s, t |-> t, level |-> level,
                         start_from |-> start_from]
              /\ trace_blocked_arrows' =
                    block_arrow_at(trace_blocked_arrows, s, t, level,
                                   start_from)
    /\ UNCHANGED << sys, pc, store_next_id, middle_state_vars,
                    right_input_vars, right_aux_vars, trans_activator,
                    trace_activators, error_solver, consecution_solver, slv,
                    cexes, stack, ret, gen, prop, result, fout >>

\* block_arrow_at( s, t, level, start_from ) called
FrameBlock ==
    /\ pc = "frames"
    /\ \E s \in FrameSources, t \in FrameTargets, level \in 1..depth :
          \E start_from \in 1..level :
              /\ Len(trace_blocked_arrows[level + 1]) < MaxFrameArrows
              /\ fin' = [s |-> s, t |-> t, level |-> level,
                         start_from |-> start_from]
              /\ trace_blocked_arrows' =
                    block_arrow_at(trace_blocked_arrows, s, t, level,
                                   start_from)
              /\ error_solver' = block_error_solver(error_solver, s, t, level)
              /\ consecution_solver' =
                    block_consecution_solver(consecution_solver, s, t, level)
    /\ UNCHANGED << sys, pc, store_next_id, middle_state_vars,
                    right_input_vars, right_aux_vars, trans_activator,
                    trace_activators, slv, cexes, stack, ret, gen, prop,
                    result, fout >>

FrameSpec == FrameInit /\ [][FrameBlock]_vars

\* the step is a call of block_arrow_at
BlockCalled == pc = "frames"

\* how often the arrow a stands in the frame
Count(frame, a) == Cardinality({i \in 1..Len(frame) : frame[i] = a})

\* the two frames hold the same arrows as often, in any order
SameArrows(f, g) ==
    \A a \in SeqToSet(f) \cup SeqToSet(g) : Count(f, a) = Count(g, a)

\* the arrows of the frame that ( s, t ) does not subsume
Unsubsumed(frame, s, t) ==
    SelectSeq(frame, LAMBDA a : ~(subsumes(s, a[1]) /\ subsumes(t, a[2])))

\* what block_arrow_at leaves when it sweeps the frames start_from..top
BlockedUpTo(top, trace, a) ==
    [k \in 1..Len(trace) |->
        LET kept == IF a.start_from <= k - 1 /\ k - 1 <= top
                    THEN Unsubsumed(trace[k], a.s, a.t)
                    ELSE trace[k]
        IN  IF k - 1 = a.level THEN Append(kept, << a.s, a.t >>) ELSE kept]

SameFrames(tr, expected) ==
    /\ Len(tr) = Len(expected)
    /\ \A k \in 1..Len(tr) : SameArrows(tr[k], expected[k])

C25_NoComparableArrows ==
    \A k \in 1..Len(trace_blocked_arrows) :
        \A i, j \in 1..Len(trace_blocked_arrows[k]) :
            i # j =>
                ~ /\ subsumes(trace_blocked_arrows[k][i][1],
                              trace_blocked_arrows[k][j][1])
                  /\ subsumes(trace_blocked_arrows[k][i][2],
                              trace_blocked_arrows[k][j][2])

\* the pairs of states blocked at level l by the arrows of the frames
\* l..depth
BlockedPairs(l) ==
    {p \in AllStates(S0) \X AllStates(S0) :
        \E k \in l..depth : \E a \in ArrowsAt(k) :
            InCube(p[1], a[1]) /\ InCube(p[2], a[2])}

\* C26: an arrow ( s2, t2 ) leaves a frame j only in a step that inserts,
\* as the last arrow of a frame of a level >= j, an arrow ( s, t ) with
\* s subsumes s2 and t subsumes t2; and for every level l the set of state
\* pairs blocked at l by the arrows of the frames l..depth never shrinks.
C26_LeavesBySubsumption ==
    [][/\ \A j \in 1..depth : \A a \in ArrowsAt(j) :
              Count(trace_blocked_arrows'[j + 1], a)
                  < Count(trace_blocked_arrows[j + 1], a) =>
                  \E l \in j..depth :
                      /\ trace_blocked_arrows'[l + 1] # << >>
                      /\ subsumes(Last(trace_blocked_arrows'[l + 1])[1], a[1])
                      /\ subsumes(Last(trace_blocked_arrows'[l + 1])[2], a[2])
       /\ \A l \in 1..depth : BlockedPairs(l) \subseteq BlockedPairs(l)']_vars
\* an arrow once blocked at level 1 has left frame 1, swept by the call
\* that inserted an arrow subsuming it into frame 2
C26_SweptFromBelow ==
    /\ pc = "frames" /\ depth = 2 /\ fin # << >>
    /\ fin.level = 2 /\ fin.start_from = 1
    /\ trace_blocked_arrows[2] = << >>
    /\ Last(trace_blocked_arrows[3]) = << fin.s, fin.t >>
    /\ \E s \in FrameSources, t \in FrameTargets :
          /\ << s, t >> # << fin.s, fin.t >>
          /\ subsumes(fin.s, s) /\ subsumes(fin.t, t)
          /\ Guarded(s, prime(t), 1) \in error_solver.clauses

(***************************************************************************)
(* The relations TF[ k ] of a run: TF[ 0 ] is Id \/ T, and a pair of       *)
(* states is admitted at a level l >= 1 when it satisfies every clause of  *)
(* a blocked arrow that the assumptions activators_from( l ) activate.     *)
(***************************************************************************)
\* the literal of a clause not( s /\ t' ) under the pair ( x, z )
ArrowLitHolds(l, x, z) ==
    IF Contains(state_vars(S0), Var(l))
    THEN Positive(l) = (Var(l) \in x)
    ELSE Positive(l) =
             (Nth(state_vars(S0), Offset(next_state_vars(S0), Var(l))) \in z)

\* the clause is not activated by the assumptions, or the pair satisfies it
ClauseAdmits(cl, assm, x, z) ==
    \/ -Last(cl) \notin assm
    \/ \E i \in 1..(Len(cl) - 1) : ArrowLitHolds(cl[i], x, z)

TF(l) ==
    IF l = 0
    THEN {p \in AllStates(S0) \X AllStates(S0) :
             \/ p[2] = p[1]
             \/ \E y \in AllInputs(S0) : p[2] = NextTab[sys][<< p[1], y >>]}
    ELSE {p \in AllStates(S0) \X AllStates(S0) :
             \A cl \in error_solver.clauses :
                 ClauseAdmits(cl, activators_from(l), p[1], p[2])}

\* C27 as stated: for every k >= 1 every pair of states admitted at level
\* k is admitted at level k - 1.
C27_FramesShrink == \A k \in 1..depth : TF(k) \subseteq TF(k - 1)

\* C27, amended: the inclusion runs upwards.  For every k >= 1 every pair
\* of states admitted at level k - 1 is admitted at level k, where
\* TF[ 0 ] = Id \/ T and a pair is admitted at a level l >= 1 iff no arrow
\* active under activators_from( l ) blocks it.
C27_FramesGrow == \A k \in 1..depth : TF(k - 1) \subseteq TF(k)
\* frame 1 blocks a pair of states and admits another that neither the
\* identity nor T holds
C27_FrameBetween ==
    /\ depth >= 1
    /\ TF(1) # AllStates(S0) \X AllStates(S0)
    /\ TF(1) # TF(0)
    /\ TF(0) \subseteq TF(1)

(***************************************************************************)
(* solve_obligation on its own: a verifier that has run initialize and     *)
(* pushed the frames 1 and 2 is handed an obligation of level 2 over any   *)
(* two states of the system, with the inputs get_error_cex stores in it.   *)
(***************************************************************************)
\* the systems with one or two state variables and no input
SolveSystems ==
    {i \in SysIds : Systems[i].ns \in 1..2 /\ Systems[i].ni = 0}

\* the cube of all state variables that holds of the state x only
FullCube(x) ==
    [k \in 1..Size(state_vars(S0)) |->
        MkLiteral(Nth(state_vars(S0), k - 1), Nth(state_vars(S0), k - 1) \in x)]

SolveInit ==
    /\ \E i \in SolveSystems : Pushed(i, 3)
    /\ \E x, z \in AllStates(S0) :
          cexes = << cex_entry(FullCube(x), FullCube(z),
                               {get_model(input_vars(S0), {})}) >>
    /\ stack = << Call(0, 2) >>
    /\ pc = "solve"

SolveNext ==
    \/ SolveEqual
    \/ SolveConcreteEdge
    \/ SolveNoEdge
    \/ SplitPathLevelOne
    \/ SplitObligation
    \/ ResumeLeftTrue
    \/ ResumeRightTrue
    \/ ResumeChildFalse
    \/ SplitUnsat
    \/ ClosureStep
    \/ BlockGeneralized

SolveSpec == SolveInit /\ [][SolveNext]_vars

\* an arrow of a frame l or higher blocks the pair of cubes ( a, b )
BlockedFrom(l, a, b) ==
    \E k \in l..depth : \E arrow \in ArrowsAt(k) :
        subsumes(arrow[1], a) /\ subsumes(arrow[2], b)

\* split_obligation hands out a pair of children in this step
Splits ==
    /\ pc = "solve" /\ stack # << >> /\ Top.pc = "split" /\ Top.level >= 2
    /\ Len(stack') = Len(stack) + 1

PropSystems ==
    {i \in SysIds : Systems[i].ns \in 1..2 /\ Systems[i].ni = 0
                     /\ Systems[i].na <= 1}

\* the sorted cubes over the state variables, one literal a variable
StateCubes ==
    {sort_literals(q) :
        q \in UNION {[1..n -> StateLiterals] : n \in 1..Size(state_vars(S0))}}
    \cap {q \in Seq(StateLiterals) : is_sorted_and_simple(q)}

PropInit ==
    /\ \E i \in PropSystems : Pushed(i, 2)
    /\ cexes = << >>
    /\ stack = << >>
    /\ pc = "loop"

\* solve_obligation of a root returns false: block_arrow_at( c, d, depth )
\* with cubes as generalize_blocked_arrow returns them
BlockSound ==
    /\ pc = "loop"
    /\ Len(trace_blocked_arrows[depth + 1]) < MaxFrameArrows
    /\ \E c \in StateCubes, d \in StateCubes :
          /\ Disjoint(c, d)
          /\ ~is_sat(consecution_solver, EdgeAssumptions(c, d))
          /\ ~is_sat(consecution_solver, PathAssumptions(depth - 1, c, d))
          /\ trace_blocked_arrows' =
                block_arrow_at(trace_blocked_arrows, c, d, depth, 1)
          /\ error_solver' = block_error_solver(error_solver, c, d, depth)
          /\ consecution_solver' =
                block_consecution_solver(consecution_solver, c, d, depth)
    /\ UNCHANGED << sys, pc, store_next_id, middle_state_vars,
                    right_input_vars, right_aux_vars, trans_activator,
                    trace_activators, slv, cexes, stack, ret, gen, prop,
                    result, fin, fout >>

PropagateNext ==
    \/ BlockSound
    \/ GetErrorCexUnsat
    \/ PropagatePush
    \/ PropagateKeep
    \/ PropagateLevelEmpty
    \/ PropagateLevelNext
    \/ PropagateReturn

PropagateSpec == PropInit /\ [][PropagateNext]_vars

\* the frame of level k, now and after the step
FrameAt(k) == trace_blocked_arrows[k + 1]
FrameAfter(k) == trace_blocked_arrows'[k + 1]

\* check calls propagate
PropagateCalled == pc = "loop" /\ pc' = "propagate"

\* propagate handles the next arrow of the copy of level i
ArrowTried ==
    /\ pc = "propagate" /\ pc' = "propagate"
    /\ prop'.i = prop.i /\ prop' # prop

\* propagate goes on from level i to level i + 1
LevelLeft == pc = "propagate" /\ pc' = "propagate" /\ prop'.i # prop.i

\* propagate returns true, propagate returns false
ReturnsTrue == pc = "propagate" /\ pc' = "done"
ReturnsFalse == pc = "propagate" /\ pc' = "loop"

\* the consecution query of propagate for the arrow a at level i
Consecutive(i, a) ==
    ~is_sat(consecution_solver,
            activators_from(i) \cup SeqToSet(a[1])
                \cup SeqToSet(prime(a[2])))

\* C29: propagate is called right after a new empty top frame was pushed
\* and handles the levels 1..depth-1 in ascending order; each arrow of the
\* copy of level i is moved to level i + 1, inserted there and removed from
\* level i, iff the query activators_from(i), s, prime(t) is UNSAT, and
\* stays at level i otherwise; propagate returns true at the first level
\* that is empty after its arrows were handled, without handling higher
\* levels, and false if there is no such level.
C29_Propagate ==
    /\ [][PropagateCalled =>
             /\ depth' = depth + 1
             /\ FrameAfter(depth') = << >>
             /\ prop' = [i |-> 1, arrows |-> FrameAfter(1), k |-> 1]]_vars
    /\ [][ArrowTried =>
             /\ prop.i \in 1..(depth - 1)
             /\ prop.k \in 1..Len(prop.arrows)
             /\ prop' = [prop EXCEPT !.k = prop.k + 1]
             /\ IF Consecutive(prop.i, PropArrow)
                THEN /\ Count(FrameAfter(prop.i + 1), PropArrow) = 1
                     /\ Count(FrameAfter(prop.i), PropArrow) = 0
                ELSE /\ trace_blocked_arrows' = trace_blocked_arrows
                     /\ Count(FrameAt(prop.i), PropArrow) = 1]_vars
    /\ [][LevelLeft =>
             /\ prop.k = Len(prop.arrows) + 1
             /\ FrameAt(prop.i) # << >>
             /\ prop'.i = prop.i + 1
             /\ prop'.k = 1
             /\ prop'.i < depth => prop'.arrows = FrameAt(prop'.i)
             /\ trace_blocked_arrows' = trace_blocked_arrows]_vars
    /\ [][ReturnsTrue =>
             /\ prop.i \in 1..(depth - 1)
             /\ prop.k = Len(prop.arrows) + 1
             /\ FrameAt(prop.i) = << >>
             /\ \A j \in 1..(prop.i - 1) : FrameAt(j) # << >>
             /\ result'.kind = "safe"
             /\ trace_blocked_arrows' = trace_blocked_arrows]_vars
    /\ [][ReturnsFalse =>
             /\ prop.i = depth
             /\ \A j \in 1..(depth - 1) : FrameAt(j) # << >>
             /\ trace_blocked_arrows' = trace_blocked_arrows]_vars

\* propagate has handled the copy of level 1: an arrow of the copy was
\* moved to level 2 and an arrow of the copy stayed at level 1
C29_MovedAndKept ==
    /\ pc = "propagate"
    /\ prop.i = 1 /\ prop.k = Len(prop.arrows) + 1
    /\ \E a \in ArrowsAt(2) : a \in SeqToSet(prop.arrows)
    /\ \E a \in ArrowsAt(1) : a \in SeqToSet(prop.arrows)

\* a frame is pushed in this step
FramePushed == Len(trace_activators') # Len(trace_activators)

\* check enters its loop
LoopEntered == pc = "trivial_step" /\ pc' = "loop"

\* solve_obligation is called on a root
RootCalled == stack = << >> /\ stack' # << >>

\* C30: run pushes frame 0 in initialize and frame 1 before the loop; inside
\* the loop a frame is pushed only immediately after the error query at the
\* current depth was UNSAT, depth grows by exactly one per push, propagate
\* is called right after each such push, and solve_obligation is called on
\* a root only with level equal to the current depth.
C30_RunOrder ==
    /\ [][pc = "run" =>
             /\ FramePushed /\ depth' = 0
             /\ pc' = "trivial_init"]_vars
    /\ [](pc \in {"trivial_init", "trivial_step"} => depth = 0)
    /\ [][LoopEntered => FramePushed /\ depth' = 1]_vars
    /\ [](pc \in {"loop", "solve", "propagate"} => depth >= 1)
    /\ [][FramePushed =>
             /\ trace_activators' =
                   Append(trace_activators, Last(trace_activators'))
             /\ trace_blocked_arrows' = Append(trace_blocked_arrows, << >>)
             /\ depth' = depth + 1
             /\ pc \in {"run", "trivial_step", "loop"}]_vars
    /\ [][FramePushed /\ pc = "loop" =>
             /\ ~is_sat(error_solver, activators_from(depth))
             /\ error_solver'.status = "unsat"
             /\ error_solver'.assumed = activators_from(depth)
             /\ pc' = "propagate"
             /\ prop' = [i |-> 1, arrows |-> FrameAfter(1), k |-> 1]]_vars
    /\ [][RootCalled =>
             /\ pc = "loop" /\ pc' = "solve"
             /\ Len(stack') = 1
             /\ stack'[1].level = depth
             /\ stack'[1].pc = "enter"
             /\ stack'[1].handle = Len(cexes)
             /\ depth' = depth]_vars

\* the error query at depth 1 was UNSAT, frame 2 was pushed and propagate
\* is at its first level
C30_PushedInLoop ==
    /\ pc = "propagate"
    /\ depth = 2
    /\ prop.i = 1 /\ prop.k = 1
    /\ error_solver.status = "unsat"
    /\ error_solver.assumed = {trace_activators[2]}

(***************************************************************************)
(* The root obligation of get_error_cex.                                   *)
(***************************************************************************)
\* the cube has one literal for each variable of the range
IsFull(c, range) ==
    /\ Len(c) = Size(range)
    /\ {Var(c[k]) : k \in 1..Len(c)} = RangeVars(range)

\* the variables a cube holds positively
TrueVars(c) == {Var(c[k]) : k \in {j \in 1..Len(c) : Positive(c[j])}}

\* the node the root call is made for
Root == cexes'[Len(cexes')]

\* C31: get_error_cex queries the error solver assuming the activators of
\* frame depth and higher, which is exactly the activator of frame depth;
\* when SAT the root node it creates has s a full state satisfying Init, t
\* a full state that satisfies Error under the recorded inputs, and the
\* pair (s, t) blocked by no arrow stored at level depth.
C31_RootNode ==
    [][RootCalled =>
          /\ error_solver'.assumed = activators_from(depth)
          /\ activators_from(depth) = {trace_activators[depth + 1]}
          /\ error_solver'.status = "sat"
          /\ IsFull(Root.s_state_vars, state_vars(S0))
          /\ IsFull(Root.t_state_vars, state_vars(S0))
          /\ InitHolds(S0, TrueVars(Root.s_state_vars))
          /\ \E inputs \in Root.input_vars :
                /\ IsFull(inputs, input_vars(S0))
                /\ << TrueVars(Root.t_state_vars), TrueVars(inputs) >>
                      \in ErrorTab[sys]
          /\ \A a \in ArrowsAt(depth) :
                ~(subsumes(a[1], Root.s_state_vars)
                    /\ subsumes(a[2], Root.t_state_vars))]_vars

(***************************************************************************)
(* The queries of the consecution solver and the transition copies they    *)
(* switch on.                                                              *)
(***************************************************************************)
\* the formulas of the consecution solver after initialize
ConsecutionFormulas ==
    {Formula("trans", trans_activator),
     Formula("left_trans", trace_activators[1]),
     Formula("right_trans", trace_activators[1])}

\* the query of this step is constrained by the named formula
Constrained(name) ==
    \E f \in consecution_solver'.formulas :
        f.name = name /\ Active(f, consecution_solver'.assumed)

\* the literals a query assumes besides the two cubes
Switches(s, t) ==
    consecution_solver'.assumed \ (SeqToSet(s) \cup SeqToSet(prime(t)))

InSolve == pc = "solve" /\ stack # << >>

\* has_concrete_edge asks its query
EdgeAsked == InSolve /\ Top.pc = "enter" /\ get_s(Top) # get_t(Top)

\* split_path asks its query
SplitAsked == InSolve /\ Top.pc = "split"

\* the closure loop of generalize_blocked_arrow asks its query
ClosureAsked == InSolve /\ Top.pc = "closure"

\* the consecution solver has answered a query in this step
Answered ==
    << consecution_solver'.status, consecution_solver'.assumed >> #
        << consecution_solver.status, consecution_solver.assumed >>

\* C32: LeftTrans and RightTrans are asserted once, both guarded by the
\* activator of frame 0, and T by trans_activator; a consecution query is
\* constrained by LeftTrans and RightTrans iff it is the split query of a
\* level-1 obligation (activators_from(0)); the concrete one-step query
\* assumes only trans_activator, s and prime(t); split queries at a level
\* k >= 2 and propagate queries assume only the activators of the frames
\* k - 1 and higher (i and higher) and neither transition copy.
C32_QueryActivators ==
    /\ [](pc # "run" => consecution_solver.formulas = ConsecutionFormulas)
    /\ [][Answered =>
             EdgeAsked \/ SplitAsked \/ ClosureAsked \/ ArrowTried]_vars
    /\ [][Answered =>
             /\ Constrained("left_trans") = (SplitAsked /\ Top.level = 1)
             /\ Constrained("right_trans") = (SplitAsked /\ Top.level = 1)
             /\ Constrained("trans") = (EdgeAsked \/ ClosureAsked)]_vars
    /\ [][EdgeAsked =>
             /\ consecution_solver'.assumed =
                   {trans_activator} \cup SeqToSet(get_s(Top))
                       \cup SeqToSet(prime(get_t(Top)))
             /\ Constrained("trans")
             /\ ~Constrained("left_trans") /\ ~Constrained("right_trans")]_vars
    /\ [][SplitAsked =>
             /\ Switches(get_s(Top), get_t(Top)) =
                   {trace_activators[j + 1] : j \in (Top.level - 1)..depth}
             /\ Top.level = 1 =>
                   Constrained("left_trans") /\ Constrained("right_trans")
             /\ Top.level >= 2 =>
                   /\ ~Constrained("left_trans")
                   /\ ~Constrained("right_trans")
                   /\ ~Constrained("trans")]_vars
    /\ [][ArrowTried =>
             /\ Switches(PropArrow[1], PropArrow[2]) =
                   {trace_activators[j + 1] : j \in prop.i..depth}
             /\ ~Constrained("left_trans")
             /\ ~Constrained("right_trans")
             /\ ~Constrained("trans")]_vars

\* the split query of a level-2 obligation was SAT under the activators of
\* the frames 1 and 2 and the left child is entered
C32_SplitAboveOne ==
    /\ pc = "solve" /\ Len(stack) = 2
    /\ stack[1].level = 2 /\ stack[1].pc = "wait_left"
    /\ stack[2].pc = "enter"
    /\ consecution_solver.status = "sat"
    /\ trace_activators[1] \notin consecution_solver.assumed
    /\ trans_activator \notin consecution_solver.assumed
    /\ {trace_activators[2], trace_activators[3]}
          \subseteq consecution_solver.assumed

(***************************************************************************)
(* What a run never takes back.                                            *)
(***************************************************************************)
\* the arrows stored in any frame
StoredArrows == UNION {ArrowsAt(k) : k \in 0..depth}

\* C33: the frame stack only grows: depth never decreases, blocked_arrows
\* and activators have the same length at every push_frame, the activator
\* of a frame never changes once allocated, and the clause sets of the
\* error solver and of the consecution solver only grow (the clauses of
\* arrows removed by subsumption stay asserted).
C33_OnlyGrows ==
    /\ [](Len(trace_blocked_arrows) = Len(trace_activators))
    /\ [][/\ depth' >= depth
          /\ \A k \in 1..Len(trace_activators) :
                trace_activators'[k] = trace_activators[k]
          /\ error_solver.clauses \subseteq error_solver'.clauses
          /\ error_solver.formulas \subseteq error_solver'.formulas
          /\ consecution_solver.clauses \subseteq consecution_solver'.clauses
          /\ consecution_solver.formulas
                \subseteq consecution_solver'.formulas]_vars

\* the clauses of an arrow that was swept from frame 1 and is stored in no
\* frame are still asserted in both solvers
C33_SweptStillAsserted ==
    /\ depth >= 1
    /\ \E s \in StateCubes, t \in StateCubes :
          /\ << s, t >> \notin StoredArrows
          /\ Guarded(s, prime(t), 1) \in error_solver.clauses
          /\ Guarded(s, circle(t), 1) \in consecution_solver.clauses

(***************************************************************************)
(* The nodes of the cex pool.                                              *)
(***************************************************************************)
HasInputs(n) == n.input_vars # {}
HasChildren(n) == n.left # {} /\ n.right # {}

\* solve_obligation returns true in this step
SolvedTrue == Returns /\ ret' = "true"

\* the node solve_obligation returns for, after the step
Resolved == cexes'[Top.handle + 1]

\* the nodes split_path makes in this step
Made == {cexes'[k] : k \in (Len(cexes) + 1)..Len(cexes')}

\* C34 as stated: on every cex node for which solve_obligation returned
\* true exactly one of these holds: its inputs are set, or both left and
\* right are set; the root node created by get_error_cex obeys this.
C34_ExactlyOne ==
    [][SolvedTrue => (HasInputs(Resolved) # HasChildren(Resolved))]_vars

\* C34 amended: left and right of a node are set together.  The root node
\* holds inputs from its creation on and has both children as well once
\* solve_obligation returned true on it by a split.  On any other node for
\* which solve_obligation returned true: if its s equals its t it has
\* neither inputs nor children, otherwise exactly one of inputs and both
\* children is set.  The children of a level-1 split are made with inputs,
\* the children of a split at a level k >= 2 with neither.
C34_ResolvedNodes ==
    /\ [](\A k \in 1..Len(cexes) :
             /\ (cexes[k].left = {}) = (cexes[k].right = {})
             /\ k = 1 => HasInputs(cexes[k]))
    /\ [][SolvedTrue =>
             IF get_s(Top) = get_t(Top)
             THEN /\ Resolved = cex_get(cexes, Top.handle)
                  /\ ~HasChildren(Resolved)
                  /\ HasInputs(Resolved) = (Top.handle = 0)
             ELSE IF Top.handle = 0
                  THEN HasInputs(Resolved)
                  ELSE HasInputs(Resolved) # HasChildren(Resolved)]_vars
    /\ [][InSolve /\ Top.pc = "split" /\ Len(cexes') > Len(cexes) =>
             /\ Len(cexes') = Len(cexes) + 2
             /\ HasChildren(Resolved)
             /\ \A n \in Made :
                   /\ ~HasChildren(n)
                   /\ HasInputs(n) = (Top.level = 1)]_vars

\* solve_obligation returned true on the root by a split: the root holds
\* inputs and both children, and a child whose s equals its t holds neither
C34_RootWithBoth ==
    /\ pc = "solve" /\ stack = << >> /\ ret = "true"
    /\ HasInputs(cexes[1]) /\ HasChildren(cexes[1])
    /\ \E h \in cexes[1].left \cup cexes[1].right :
          /\ cex_get(cexes, h).s_state_vars = cex_get(cexes, h).t_state_vars
          /\ ~HasInputs(cex_get(cexes, h))
          /\ ~HasChildren(cex_get(cexes, h))

(***************************************************************************)
(* The clear of the cex pool at the end of an iteration.                   *)
(***************************************************************************)
\* an iteration of the main loop ends without a return
IterationEnds == pc \in {"solve", "propagate"} /\ pc' = "loop"

\* the handles held by the call stack and by the nodes of the pool
HeldHandles ==
    {stack[k].handle : k \in 1..Len(stack)}
        \cup UNION {cexes[k].left \cup cexes[k].right : k \in 1..Len(cexes)}
        \cup UNION {{stack[k].left, stack[k].right} :
                       k \in {j \in 1..Len(stack) :
                                 stack[j].pc \in {"wait_left", "wait_right"}}}

\* C35: at the end of every main-loop iteration that does not return, the
\* cex pool is emptied while blocked_arrows, the activators and both
\* solvers are left unchanged; no cex handle created in one iteration is
\* dereferenced after the clear that ends it, and build_counterexample runs
\* before any clear of the tree it reads.
C35_ClearBetweenIterations ==
    /\ [][IterationEnds =>
             /\ cexes' = << >>
             /\ stack = << >> /\ stack' = << >>
             /\ trace_blocked_arrows' = trace_blocked_arrows
             /\ trace_activators' = trace_activators
             /\ error_solver' = error_solver
             /\ consecution_solver' = consecution_solver]_vars
    /\ [](pc = "loop" => cexes = << >> /\ stack = << >>)
    /\ [](HeldHandles \subseteq 0..(Len(cexes) - 1))
    /\ [][cexes # << >> /\ cexes' # cexes /\ ~IterationEnds =>
             /\ Len(cexes') >= Len(cexes)
             /\ \A k \in 1..Len(cexes) :
                   /\ cexes'[k].s_state_vars = cexes[k].s_state_vars
                   /\ cexes'[k].t_state_vars = cexes[k].t_state_vars]_vars
    /\ [][pc = "solve" /\ pc' = "done" =>
             /\ cexes # << >> /\ cexes' = cexes
             /\ result' = [kind |-> "cex", rows |-> visit(cexes, {0})]]_vars

\* an iteration that refuted its root has ended: the pool is empty and the
\* arrow blocked for the root is still in frame 1 and in both solvers
C35_ArrowOutlivesPool ==
    /\ pc = "loop" /\ cexes = << >>
    /\ error_solver.status = "sat"
    /\ \E a \in ArrowsAt(1) :
          /\ Guarded(a[1], prime(a[2]), 1) \in error_solver.clauses
          /\ Guarded(a[1], circle(a[2]), 1) \in consecution_solver.clauses

(***************************************************************************)
(* has_concrete_edge and the inputs of a node.                             *)
(***************************************************************************)
\* the node has_concrete_edge is called for
Asked == cex_get(cexes, Top.handle)

\* one transition of T leads from the state of the cube s to that of t
OneStepEdge(s, t) ==
    \E y \in AllInputs(S0) : NextTab[sys][<< TrueVars(s), y >>] = TrueVars(t)

\* C36: has_concrete_edge never finds an edge for a node whose inputs are
\* already set, so its assertion that the inputs are absent holds on every
\* call; the root obligation created by get_error_cex, which carries the
\* error inputs, never has a one-step T-edge from its s to its t, and its
\* inputs are never overwritten.
C36_InputsSetOnce ==
    /\ [][EdgeAsked /\ HasInputs(Asked) =>
             /\ ~is_sat(consecution_solver,
                        EdgeAssumptions(get_s(Top), get_t(Top)))
             /\ cexes'[Top.handle + 1].input_vars = Asked.input_vars]_vars
    /\ [][RootCalled =>
             ~OneStepEdge(Root.s_state_vars, Root.t_state_vars)]_vars
    /\ [][cexes # << >> /\ cexes' # << >> =>
             cexes'[1].input_vars = cexes[1].input_vars]_vars

(***************************************************************************)
(* The levels of the calls.                                                *)
(***************************************************************************)
\* solve_obligation blocks the generalised arrow in this step
SolveBlocks == ClosureAsked /\ Returns

\* propagate blocks an arrow one level up in this step
PropagateBlocks ==
    ArrowTried /\ trace_blocked_arrows' # trace_blocked_arrows

\* C37: during a run solve_obligation is never invoked with level 0 and
\* block_arrow_at is never invoked with level 0 or start_from 0: the
\* assertions 1 <= level <= depth and 1 <= start_from <= level hold on
\* every call, and blocked_arrows[0] is empty in every reachable state.
C37_LevelsAboveZero ==
    /\ [](\A k \in 1..Len(stack) : stack[k].level \in 1..depth)
    /\ [][Len(stack') > Len(stack) =>
             /\ Last(stack').level \in 1..depth
             /\ stack # << >> => Last(stack').level = Top.level - 1]_vars
    /\ [][SolveBlocks =>
             /\ Top.level \in 1..depth
             /\ FrameAfter(Top.level) # << >>
             /\ Last(FrameAfter(Top.level)) =
                   << sort_literals(gen.c), sort_literals(gen.d) >>]_vars
    /\ [][PropagateBlocks =>
             /\ prop.i >= 1 /\ prop.i + 1 <= depth
             /\ Last(FrameAfter(prop.i + 1)) = PropArrow]_vars
    /\ [](depth >= 0 => FrameAt(0) = << >>)
    /\ [][depth >= 0 => FrameAfter(0) = << >>]_vars

\* a child of level 1 of a level-2 obligation has failed its split and is
\* about to block its arrow at level 1
C37_LowestCall ==
    /\ pc = "solve" /\ Len(stack) = 2
    /\ stack[1].level = 2 /\ stack[2].level = 1
    /\ stack[2].pc = "closure"
    /\ ~is_sat(consecution_solver, EdgeAssumptions(gen.c, gen.d))

(***************************************************************************)
(* The frames against the clauses of the solvers.                          *)
(***************************************************************************)
\* the variables of the range that stand for the true variables of x
Renamed(x, range) == {Nth(range, Offset(state_vars(S0), v)) : v \in x}

\* every literal of the clause is false where exactly the variables of A
\* are true
Falsified(cl, A) ==
    \A k \in 1..Len(cl) : IF Positive(cl[k]) THEN cl[k] \notin A
                                             ELSE Var(cl[k]) \in A

ClauseVars(cl) == {Var(cl[k]) : k \in 1..Len(cl)}

\* the clauses of the consecution solver over X and the middle variables,
\* and those over the middle variables and X'
LeftHalf ==
    {cl \in consecution_solver.clauses :
        ClauseVars(cl) \cap RangeVars(next_state_vars(S0)) = {}}
RightHalf ==
    {cl \in consecution_solver.clauses :
        ClauseVars(cl) \cap RangeVars(state_vars(S0)) = {}}

StatePairs == AllStates(S0) \X AllStates(S0)

\* the pairs that falsify a clause active under activators_from(l)
ErrorExcluded(l) ==
    {p \in StatePairs :
        \E cl \in error_solver.clauses :
            Falsified(cl, p[1] \cup Renamed(p[2], next_state_vars(S0))
                              \cup activators_from(l))}
LeftExcluded(l) ==
    {p \in StatePairs :
        \E cl \in LeftHalf :
            Falsified(cl, p[1] \cup Renamed(p[2], middle_state_vars)
                              \cup activators_from(l))}
RightExcluded(l) ==
    {p \in StatePairs :
        \E cl \in RightHalf :
            Falsified(cl, Renamed(p[1], middle_state_vars)
                              \cup Renamed(p[2], next_state_vars(S0))
                              \cup activators_from(l))}

\* C38: in every reachable state and for every level l >= 1, a pair of
\* states (x, x2) falsifies some blocked-arrow clause that is active in the
\* error solver under activators_from(l) iff some arrow (s, t) stored at a
\* level >= l has x in s and x2 in t; the same holds for the left-half and
\* the right-half clauses of the consecution solver.  Removing subsumed
\* arrows makes the stored frames neither weaker nor stronger than the
\* solvers.
C38_FramesMatchSolvers ==
    \A l \in 1..depth :
        /\ ErrorExcluded(l) = BlockedPairs(l)
        /\ LeftExcluded(l) = BlockedPairs(l)
        /\ RightExcluded(l) = BlockedPairs(l)

\* an arrow was swept from its frame and its clauses are still asserted,
\* while the frames 1 and 2 block different sets of pairs
C38_SweptAndLevelled ==
    /\ pc = "frames" /\ depth = 2
    /\ BlockedPairs(2) # {}
    /\ BlockedPairs(1) # BlockedPairs(2)
    /\ \E s \in FrameSources, t \in FrameTargets :
          /\ << s, t >> \notin StoredArrows
          /\ Guarded(s, prime(t), 2) \in error_solver.clauses
          /\ Guarded(s, circle(t), 2) \in consecution_solver.clauses

(***************************************************************************)
(* One frame for an arrow.                                                 *)
(***************************************************************************)
\* C39: in every reachable state no arrow (the same pair of cubes) is
\* stored in two different frames at once: an arrow pushed by propagate
\* from level i to level i + 1 is gone from level i, and an arrow inserted
\* by solve_obligation at level k is stored at no other level.
C39_OneFramePerArrow ==
    /\ [](\A j \in 0..depth, k \in 0..depth :
             j # k => ArrowsAt(j) \cap ArrowsAt(k) = {})
    /\ [][PropagateBlocks =>
             /\ PropArrow \in SeqToSet(FrameAfter(prop.i + 1))
             /\ PropArrow \notin SeqToSet(FrameAfter(prop.i))]_vars
    /\ [][SolveBlocks =>
             \A k \in 0..depth :
                 k # Top.level =>
                     << sort_literals(gen.c), sort_literals(gen.d) >>
                         \notin SeqToSet(FrameAfter(k))]_vars

\* propagate has moved an arrow of level 1 to level 2 and kept another at
\* level 1: each of the two is stored in one frame only
C39_MovedArrowInOneFrame ==
    /\ pc = "propagate" /\ prop.i = 1 /\ prop.k > 1
    /\ \E a \in SeqToSet(prop.arrows) :
          a \in ArrowsAt(2) /\ a \notin ArrowsAt(1)
    /\ \E a \in SeqToSet(prop.arrows) :
          a \in ArrowsAt(1) /\ a \notin ArrowsAt(2)

(***************************************************************************)
(* The variables of the verifier.                                          *)
(***************************************************************************)
\* the variables of the transition system
SystemVars == 1..(BuilderNextId(S0) - 1)

\* the sets of variables the verifier has allocated, one set for each
\* range and one for each single variable
Allocated ==
    << RangeVars(middle_state_vars), RangeVars(right_input_vars),
       RangeVars(right_aux_vars), {trans_activator} >>
        \o [k \in 1..Len(trace_activators) |-> {trace_activators[k]}]

\* C40: all variables the verifier allocates (the middle-state range, the
\* right inputs, the right auxiliaries, trans_activator and one activator
\* for each frame) are pairwise distinct and distinct from every variable
\* of the transition system; each of the three ranges has the size of the
\* range it copies, and the ids handed out by the variable store strictly
\* increase.
C40_FreshVariables ==
    /\ [](/\ \A j \in 1..Len(Allocated) :
                /\ Allocated[j] \cap SystemVars = {}
                /\ \A v \in Allocated[j] : v < store_next_id
                /\ \A k \in 1..Len(Allocated) :
                      j < k =>
                          \A v \in Allocated[j], w \in Allocated[k] : v < w
          /\ Size(middle_state_vars) = Size(state_vars(S0))
          /\ Size(right_input_vars) = Size(input_vars(S0))
          /\ Size(right_aux_vars) = Size(aux_vars(S0)))
    /\ [][/\ store_next_id' >= store_next_id
          /\ FramePushed =>
                /\ Last(trace_activators') = store_next_id
                /\ store_next_id' = store_next_id + 1]_vars

\* a verifier with all three ranges non-empty holds the frames 0 and 1
C40_AllRangesAndTwoFrames ==
    /\ Len(trace_activators) = 2
    /\ Size(middle_state_vars) > 0
    /\ Size(right_input_vars) > 0
    /\ Size(right_aux_vars) > 0

====
